---- MODULE Spec2Model ----
(***************************************************************************)
(* A model of samply's Linux perf converter                                *)
(* (samply/src/linux_shared/converter.rs): the record dispatcher, the      *)
(* stack assembler, the off-CPU sample emission, the RSS accounting and    *)
(* the PE mapping correlator.                                              *)
(*                                                                         *)
(* Timestamps are nanoseconds.  Every timestamp of the model is a multiple *)
(* of Tick.  Option<T> is modelled as NoneT or the value.                  *)
(***************************************************************************)
EXTENDS Integers, Sequences, FiniteSets, TLC

VARIABLES
    \* ---- off-CPU sample emission (process_off_cpu_sample_group) ----
    off_in,      \* the call's arguments
    off_out,     \* the samples the call appended
    off_pc,      \* "idle" | "in" | "done" | "none"
    \* ---- stack assembly (Converter::get_sample_stack) ----
    st_in,       \* the sample record and the fold_recursive_prefix switch
    st_out,      \* the `stack` out-parameter
    st_pc,       \* "idle" | "in" | "done"
    \* ---- PE mapping correlator ----
    suspected_pe_mappings,  \* BTreeMap<u64, SuspectedPeMapping>: entries in key order
    pe_query,               \* the last lookup and its result
    pe_registrants,         \* history: who registered each suspected PE mapping
    \* ---- RSS accounting (Converter::handle_rss_stat) ----
    rss_prev,     \* per pid: Process::prev_mm_{filepages,anonpages,swapents,shmempages}_size
    rss_counter,  \* per pid: the memory counter's samples (add_counter_sample)
    rss_markers,  \* per pid: the markers of add_rss_stat_marker
    rss_seen,     \* per pid: the {member, size} of the records taken, in order
    \* ---- the record dispatcher ----
    converter,    \* the Converter: processes, threads, current_sample_time
    config,       \* Converter::new's arguments
    clock,        \* the timestamp of the last record of the stream
    handled,      \* the number of records handled
    last_record,  \* the last record handled
    aborted,      \* a handler panicked: the conversion is over
    \* ---- the object-file loader (Converter::add_module_to_process) ----
    files,        \* the file system: a set of {path, obj} entries
    lib_mappings,  \* the outcome of each call, in order
    \* ---- the symbol helper (wholesym Helper) ----
    helper,           \* the Helper: symbol_cache, known_libs, config
    candidate_paths,  \* the last candidate list asked for, and for what
    opened            \* the last location handed to open_file, and the outcome

varsOff == <<off_in, off_out, off_pc>>
varsStack == <<st_in, st_out, st_pc>>
varsPe == <<suspected_pe_mappings, pe_query, pe_registrants>>
varsRss == <<rss_prev, rss_counter, rss_markers, rss_seen>>
varsCore == <<converter, config, clock, handled, last_record, aborted>>
varsLoad == <<files, lib_mappings>>
varsHelper == <<helper, candidate_paths, opened>>

vars == <<off_in, off_out, off_pc, st_in, st_out, st_pc,
          suspected_pe_mappings, pe_query, pe_registrants,
          rss_prev, rss_counter, rss_markers, rss_seen,
          converter, config, clock, handled, last_record, aborted,
          files, lib_mappings,
          helper, candidate_paths, opened>>

NoneT == 0 - 1

\* Option<T> of a value that is not a number.
None == [some |-> FALSE]
Some(v) == [some |-> TRUE, v |-> v]

\* ------------------------------------------------------------------ bounds

\* One step of the model's clock, in nanoseconds.
Tick == 1000000
\* TLC's integers are 32 bits wide, so the i32 of a sample weight is scaled
\* to WeightBits bits: I32_MAX stands for i32::MAX.
WeightBits == 4
\* Longest off-CPU duration drawn for a group, in ticks.
MaxOffTicks == 10

I32_MAX == 2 ^ (WeightBits - 1) - 1

\* --------------------------------------------------------------- constants

DEFAULT_OFF_CPU_SAMPLING_INTERVAL_NS == 1000000

\* ------------------------------------------------------------ pure helpers

RECURSIVE SumWeights(_)
SumWeights(s) == IF s = <<>> THEN 0 ELSE Head(s).weight + SumWeights(Tail(s))

\* TimestampConverter::convert_time: nanoseconds since the reference
\* timestamp (the first sample's time), saturating at the reference.
convert_time(reference_ns, ktime_ns) ==
    IF ktime_ns >= reference_ns THEN ktime_ns - reference_ns ELSE 0

\* Converter::new: (off_cpu_sampling_interval_ns, off_cpu_weight_per_sample)
\* from interpretation.sampling_is_time_based (NoneT or the interval).
off_cpu_sampling_interval_ns(sampling_is_time_based) ==
    IF sampling_is_time_based # NoneT
    THEN sampling_is_time_based
    ELSE DEFAULT_OFF_CPU_SAMPLING_INTERVAL_NS

off_cpu_weight_per_sample(sampling_is_time_based) ==
    IF sampling_is_time_based # NoneT THEN 1 ELSE 0

\* UnresolvedSamples::add_sample's record.
Sample(thread_handle, profile_timestamp, timestamp_mono, stack, cpu_delta, weight) ==
    [thread |-> thread_handle, timestamp |-> profile_timestamp,
     timestamp_mono |-> timestamp_mono, stack |-> stack,
     cpu_delta |-> cpu_delta, weight |-> weight]

\* Mutant: `n as i32`, which wraps.
i32_wrapping_cast(n) == ((n + I32_MAX + 1) % (2 * (I32_MAX + 1))) - (I32_MAX + 1)

\* i32::try_from(n).unwrap_or(0) for n >= 0.
i32_try_from_unwrap_or_0(n) == IF n <= I32_MAX THEN n ELSE 0

\* Mutant: the rest sample weighs the whole group.
rest_weight_whole_group(sample_count, weight_per_sample) ==
    i32_try_from_unwrap_or_0(sample_count) * weight_per_sample

\* The rest sample's weight.
rest_weight(sample_count, weight_per_sample) ==
    i32_try_from_unwrap_or_0(sample_count - 1) * weight_per_sample

\* process_off_cpu_sample_group: the samples it appends, in order.
process_off_cpu_sample_group(group, thread_handle, cpu_delta_ns, reference_ns, weight_per_sample, off_cpu_stack) ==
    LET first == Sample(thread_handle,
                        convert_time(reference_ns, group.begin_timestamp),
                        group.begin_timestamp, off_cpu_stack,
                        cpu_delta_ns, weight_per_sample)
        rest  == Sample(thread_handle,
                        convert_time(reference_ns, group.end_timestamp),
                        group.begin_timestamp, off_cpu_stack,
                        0, rest_weight(group.sample_count, weight_per_sample))
    IN  IF group.sample_count > 1 THEN <<first, rest>> ELSE <<first>>

\* Option<OffCpuSampleGroup>::None.
NoGroup == [some |-> FALSE]

\* The off-CPU group of an interval [off_switch_timestamp, timestamp]:
\* none when less than one sampling interval fits.
off_cpu_group(off_switch_timestamp, timestamp, interval) ==
    LET off_duration == timestamp - off_switch_timestamp
    IN  IF off_duration < interval
        THEN NoGroup
        ELSE [some |-> TRUE,
              begin_timestamp |-> off_switch_timestamp,
              end_timestamp   |-> timestamp,
              sample_count    |-> off_duration \div interval]

OffIdle ==
    /\ off_in = NoneT
    /\ off_out = <<>>
    /\ off_pc = "idle"

StackIdle ==
    /\ st_in = NoneT
    /\ st_out = <<>>
    /\ st_pc = "idle"

PeIdle ==
    /\ suspected_pe_mappings = <<>>
    /\ pe_query = None
    /\ pe_registrants = {}

LoadIdle ==
    /\ files = {}
    /\ lib_mappings = <<>>

HelperIdle ==
    /\ helper = NoneT
    /\ candidate_paths = NoneT
    /\ opened = NoneT

CoreIdle ==
    /\ converter = NoneT
    /\ config = NoneT
    /\ clock = 0
    /\ handled = 0
    /\ last_record = NoneT
    /\ aborted = FALSE

\* Kernel's enum for the rss_stat member.
MM_FILEPAGES == 0
MM_ANONPAGES == 1
MM_SWAPENTS == 2
MM_SHMEMPAGES == 3

RssPids == {1, 2}
RssMembers == {MM_FILEPAGES, MM_ANONPAGES, MM_SWAPENTS, MM_SHMEMPAGES}

RssIdle ==
    /\ rss_prev = [p \in RssPids |-> [m \in RssMembers |-> 0]]
    /\ rss_counter = [p \in RssPids |-> <<>>]
    /\ rss_markers = [p \in RssPids |-> <<>>]
    /\ rss_seen = [p \in RssPids |-> <<>>]

\* str::starts_with, str::ends_with, str::contains, str::strip_suffix.
str_starts_with(s, prefix) ==
    /\ Len(s) >= Len(prefix)
    /\ SubSeq(s, 1, Len(prefix)) = prefix

str_ends_with(s, suffix) ==
    /\ Len(s) >= Len(suffix)
    /\ SubSeq(s, Len(s) - Len(suffix) + 1, Len(s)) = suffix

str_contains(s, sub) ==
    \E i \in 1..(Len(s) - Len(sub) + 1) : SubSeq(s, i, i + Len(sub) - 1) = sub

strip_suffix(s, suffix) == SubSeq(s, 1, Len(s) - Len(suffix))

\* Path::file_name: what follows the last '/'.
file_name(path) ==
    LET slashes == {i \in 1..Len(path) : SubSeq(path, i, i) = "/"}
    IN  IF slashes = {}
        THEN path
        ELSE SubSeq(path, (CHOOSE i \in slashes : \A j \in slashes : j <= i) + 1, Len(path))

\* ------------------------------------------- off-CPU emission, on its own

InitOff ==
    /\ StackIdle
    /\ HelperIdle
    /\ PeIdle
    /\ RssIdle
    /\ LoadIdle
    /\ CoreIdle
    /\ off_pc = "in"
    /\ off_out = <<>>
    /\ \E tb \in {NoneT, Tick}, begin \in {0, Tick},
          ticks \in 0..MaxOffTicks, delta \in {0, Tick} :
          off_in = [sampling_is_time_based |-> tb,
                    off_switch_timestamp |-> begin,
                    timestamp |-> begin + ticks * Tick,
                    cpu_delta_ns |-> delta]

OffGroup ==
    off_cpu_group(off_in.off_switch_timestamp, off_in.timestamp,
                  off_cpu_sampling_interval_ns(off_in.sampling_is_time_based))

\* The tracker reports a group and the converter emits its samples.
EmitOffCpuGroup ==
    /\ off_pc = "in"
    /\ OffGroup.some
    /\ off_out' = process_off_cpu_sample_group(
                      OffGroup, 1, off_in.cpu_delta_ns, 0,
                      off_cpu_weight_per_sample(off_in.sampling_is_time_based),
                      <<>>)
    /\ off_pc' = "done"
    /\ UNCHANGED <<varsHelper, off_in, varsStack, varsPe, varsRss, varsCore, varsLoad>>

\* The interval is shorter than the sampling interval: no group.
NoOffCpuGroup ==
    /\ off_pc = "in"
    /\ ~OffGroup.some
    /\ off_pc' = "none"
    /\ UNCHANGED <<varsHelper, off_in, off_out, varsStack, varsPe, varsRss, varsCore, varsLoad>>

NextOff == EmitOffCpuGroup \/ NoOffCpuGroup

SpecOff == InitOff /\ [][NextOff]_vars

\* C2 (as amended): the weights of a group's samples sum to the group's
\* count when sampling is time-based and count - 1 fits an i32, to 1 when
\* it does not fit (the rest sample's weight saturates to 0), and to 0 when
\* sampling is event-based.
OffCpuWeightConservationUpToI32 ==
    off_pc = "done" =>
        LET sum == SumWeights(off_out)
            count == OffGroup.sample_count
        IN  IF off_in.sampling_is_time_based # NoneT
            THEN /\ (count - 1 <= I32_MAX => sum = count)
                 /\ (count - 1 > I32_MAX => sum = 1)
            ELSE sum = 0

\* C2 as stated: the weights sum to count for every count.
OffCpuWeightConservation ==
    off_pc = "done" =>
        SumWeights(off_out) =
            (IF off_in.sampling_is_time_based # NoneT
             THEN OffGroup.sample_count ELSE 0)

OffCpuWeightWitness ==
    /\ off_pc = "done"
    /\ off_in.sampling_is_time_based # NoneT
    /\ OffGroup.sample_count > 2
    /\ Len(off_out) = 2
    /\ SumWeights(off_out) = OffGroup.sample_count

\* C19: when a group has count > 1, the rest sample is stored at the
\* group's end: its profile time is the converted end timestamp and its
\* monotonic time is the end timestamp; its cpu delta is 0 and its stack is
\* the begin sample's.
OffCpuRestSampleAtEnd ==
    (off_pc = "done" /\ OffGroup.sample_count > 1) =>
        /\ Len(off_out) = 2
        /\ off_out[2].timestamp = convert_time(0, OffGroup.end_timestamp)
        /\ off_out[2].timestamp_mono = OffGroup.end_timestamp
        /\ off_out[2].cpu_delta = 0
        /\ off_out[2].stack = off_out[1].stack

\* C20: when (count - 1) * per-sample-weight does not fit an i32 the rest
\* sample's weight is exactly 0, and when it fits the weight is that
\* product; no sample of a group has a negative or wrapped weight.
OffCpuRestWeightSaturates ==
    off_pc = "done" =>
        LET weight_per_sample == off_cpu_weight_per_sample(off_in.sampling_is_time_based)
            product == (OffGroup.sample_count - 1) * weight_per_sample
        IN  /\ \A i \in DOMAIN off_out : off_out[i].weight \in 0..I32_MAX
            /\ OffGroup.sample_count > 1 =>
                   /\ Len(off_out) = 2
                   /\ off_out[2].weight = IF product > I32_MAX THEN 0 ELSE product

\* A time-based group so long that count - 1 does not fit: the rest sample
\* weighs 0.
OffCpuRestWeightSaturatesWitness ==
    /\ off_pc = "done"
    /\ off_cpu_weight_per_sample(off_in.sampling_is_time_based) = 1
    /\ OffGroup.sample_count - 1 > I32_MAX
    /\ Len(off_out) = 2
    /\ off_out[2].weight = 0

\* ------------------------------------------------------- stack assembly

\* The top of the address space, standing for 2^64 (TLC's integers are 32
\* bits wide); the perf context markers sit just below it, in the order
\* of the kernel's constants.
AddrTop == 8
\* Longest callchain and longest run of unwinder frames drawn.
MaxChain == 3
MaxDwarf == 2

PERF_CONTEXT_HV == AddrTop - 1
PERF_CONTEXT_KERNEL == AddrTop - 2
PERF_CONTEXT_USER == AddrTop - 3
PERF_CONTEXT_MAX == AddrTop - 4

\* Code addresses of the frames drawn.
Addrs == {1, 2}
ContextMarkers ==
    {PERF_CONTEXT_MAX, PERF_CONTEXT_USER, PERF_CONTEXT_KERNEL, PERF_CONTEXT_HV}

SeqsUpTo(S, n) == UNION {[1..k -> S] : k \in 0..n}

\* StackMode::from(CpuMode).
StackModeFrom(cpu_mode) == IF cpu_mode = "Kernel" THEN "Kernel" ELSE "User"

\* StackMode::from_context_frame: "none" for a marker it does not know.
from_context_frame(address) ==
    IF address = PERF_CONTEXT_KERNEL THEN "Kernel"
    ELSE IF address = PERF_CONTEXT_USER THEN "User"
    ELSE "none"

InstructionPointer(addr, mode) == [kind |-> "ip", addr |-> addr, mode |-> mode]
ReturnAddress(addr, mode) == [kind |-> "ra", addr |-> addr, mode |-> mode]
TruncatedStackMarker == [kind |-> "trunc", addr |-> 0, mode |-> "none"]

\* Mutant: a context marker leaves the mode as it is.
mode_after_marker_unchanged(mode, address) == mode

\* The mode after a context marker.
mode_after_marker(mode, address) ==
    IF from_context_frame(address) # "none"
    THEN from_context_frame(address)
    ELSE mode

\* The loop over e.callchain, from entry i on.
RECURSIVE callchain_frames(_, _, _, _, _)
callchain_frames(callchain, i, mode, is_first_frame, stack) ==
    IF i > Len(callchain)
    THEN stack
    ELSE LET address == callchain[i]
         IN  IF address >= PERF_CONTEXT_MAX
             THEN callchain_frames(callchain, i + 1,
                                   mode_after_marker(mode, address),
                                   is_first_frame, stack)
             ELSE callchain_frames(
                      callchain, i + 1, mode, FALSE,
                      Append(stack,
                             IF is_first_frame
                             THEN InstructionPointer(address, mode)
                             ELSE ReturnAddress(address, mode)))

\* Mutant: the unwinder's frames take the mode of the record.
unwound_mode_of_record(cpu_mode) == StackModeFrom(cpu_mode)

\* The mode of the frames the unwinder delivers.
unwound_mode(cpu_mode) == "User"

\* Mutant: an unwinder error ends the walk without a marker.
unwound_frames_without_marker(dwarf, cpu_mode) ==
    [i \in 1..Len(dwarf.frames) |->
        IF i = 1
        THEN InstructionPointer(dwarf.frames[i], "User")
        ELSE ReturnAddress(dwarf.frames[i], "User")]
    \o <<>>

\* The unwind loop.  The unwinder delivers its first frame as an
\* instruction pointer, the later ones as return addresses, and may end
\* with an error.
unwound_frames(dwarf, cpu_mode) ==
    [i \in 1..Len(dwarf.frames) |->
        IF i = 1
        THEN InstructionPointer(dwarf.frames[i], unwound_mode(cpu_mode))
        ELSE ReturnAddress(dwarf.frames[i], unwound_mode(cpu_mode))]
    \o (IF dwarf.err THEN <<TruncatedStackMarker>> ELSE <<>>)

\* Mutant: the fold removes nothing.
fold_recursive_prefix_kept(stack) == stack

\* The fold of a repeated frame at the base of the stack.
RECURSIVE fold_recursive_prefix(_)
fold_recursive_prefix(stack) ==
    IF Len(stack) >= 2 /\ stack[Len(stack) - 1] = stack[Len(stack)]
    THEN fold_recursive_prefix(SubSeq(stack, 1, Len(stack) - 1))
    ELSE stack

\* Converter::get_sample_stack: the frames, callee-most first.
get_sample_stack(e, fold) ==
    LET from_callchain ==
            IF e.callchain.some
            THEN callchain_frames(e.callchain.v, 1, StackModeFrom(e.cpu_mode),
                                  TRUE, <<>>)
            ELSE <<>>
        stack ==
            from_callchain \o
            (IF e.dwarf.some THEN unwound_frames(e.dwarf.v, e.cpu_mode) ELSE <<>>)
    IN  IF stack = <<>>
        THEN IF e.ip # NoneT
             THEN <<InstructionPointer(e.ip, StackModeFrom(e.cpu_mode))>>
             ELSE <<>>
        ELSE IF fold THEN fold_recursive_prefix(stack) ELSE stack

RECURSIVE Reverse(_)
Reverse(seq) == IF seq = <<>> THEN <<>> ELSE Append(Reverse(Tail(seq)), Head(seq))

\* UnresolvedStacks::convert.
convert(frames) == frames

SampleRecords ==
    [callchain : {None} \cup {Some(c) : c \in SeqsUpTo(Addrs \cup ContextMarkers, MaxChain)},
     dwarf : {None} \cup {Some([frames |-> f, err |-> b]) :
                              f \in SeqsUpTo(Addrs, MaxDwarf), b \in BOOLEAN},
     ip : {NoneT, 1},
     cpu_mode : {"User", "Kernel"}]

InitStack ==
    /\ OffIdle
    /\ HelperIdle
    /\ PeIdle
    /\ RssIdle
    /\ LoadIdle
    /\ CoreIdle
    /\ st_pc = "in"
    /\ st_out = <<>>
    /\ \E e \in SampleRecords, fold \in BOOLEAN :
          st_in = [e |-> e, fold |-> fold]

AssembleStack ==
    /\ st_pc = "in"
    /\ st_out' = get_sample_stack(st_in.e, st_in.fold)
    /\ st_pc' = "done"
    /\ UNCHANGED <<varsHelper, st_in, varsOff, varsPe, varsRss, varsCore, varsLoad>>

NextStack == AssembleStack

SpecStack == InitStack /\ [][NextStack]_vars

\* The mode in force at entry i of a callchain: that of the last known
\* marker before it, or the record's cpu mode.
ModeInForce(callchain, cpu_mode, i) ==
    LET known == {j \in 1..(i - 1) :
                     callchain[j] \in {PERF_CONTEXT_KERNEL, PERF_CONTEXT_USER}}
    IN  IF known = {}
        THEN StackModeFrom(cpu_mode)
        ELSE LET last == CHOOSE j \in known : \A k \in known : k <= j
             IN  IF callchain[last] = PERF_CONTEXT_KERNEL THEN "Kernel" ELSE "User"

\* The callchain lists its kernel slice first: no entry in kernel mode
\* follows an entry in user mode.
KernelSliceFirst(e) ==
    \/ ~e.callchain.some
    \/ LET c == e.callchain.v
           frames == {i \in 1..Len(c) : c[i] < PERF_CONTEXT_MAX}
       IN  \A i, j \in frames :
              i < j => ~(/\ ModeInForce(c, e.cpu_mode, i) = "User"
                         /\ ModeInForce(c, e.cpu_mode, j) = "Kernel")

KernelBeforeUser(stack) ==
    \A i, j \in 1..Len(stack) :
        i < j => ~(stack[i].mode = "User" /\ stack[j].mode = "Kernel")

\* The addresses to expect, callee-most first: the callchain's entries
\* below the marker threshold in callchain order, then the unwinder's.
ExpectedAddrs(e) ==
    LET c == IF e.callchain.some THEN e.callchain.v ELSE <<>>
        d == IF e.dwarf.some THEN e.dwarf.v.frames ELSE <<>>
    IN  SelectSeq(c, LAMBDA a : a < PERF_CONTEXT_MAX) \o d

FrameAddrs(stack) ==
    LET frames == SelectSeq(stack, LAMBDA f : f.kind # "trunc")
    IN  [i \in 1..Len(frames) |-> frames[i].addr]

IsPrefix(s, t) == Len(s) <= Len(t) /\ s = SubSeq(t, 1, Len(s))

CallchainFrameIndices(c) ==
    SelectSeq([i \in 1..Len(c) |-> i], LAMBDA i : c[i] < PERF_CONTEXT_MAX)

\* The frame to expect for the k-th such entry.
CallchainFrame(e, k) ==
    LET c == e.callchain.v
        i == CallchainFrameIndices(c)[k]
    IN  [kind |-> IF k = 1 THEN "ip" ELSE "ra",
         addr |-> c[i],
         mode |-> ModeInForce(c, e.cpu_mode, i)]

\* C21: the callchain's entries at or above the marker threshold are not
\* frames; every other entry is one frame, in callchain order, at the head
\* of the stack: the first an instruction pointer, the others return
\* addresses, each in the mode of the last recognised marker before it (the
\* record's cpu mode when there is none).  Only the fold of the base of the
\* stack removes any of them, and only from the end.
CallchainParsing ==
    (st_pc = "done" /\ st_in.e.callchain.some) =>
        LET n == Len(CallchainFrameIndices(st_in.e.callchain.v))
        IN  /\ ~st_in.fold => Len(st_out) >= n
            /\ \A k \in 1..n :
                   k <= Len(st_out) => st_out[k] = CallchainFrame(st_in.e, k)
            /\ \A k \in 1..Len(st_out) :
                   /\ st_out[k].kind = "trunc" \/ st_out[k].addr < PERF_CONTEXT_MAX
                   /\ (k > 1 /\ k <= n) => st_out[k].kind = "ra"

\* A callchain with a marker between two entries: the frames differ in mode.
CallchainParsingWitness ==
    /\ st_pc = "done"
    /\ ~st_in.fold
    /\ st_in.e.callchain.some
    /\ ~st_in.e.dwarf.some
    /\ Len(st_in.e.callchain.v) = 3
    /\ Len(st_out) = 2
    /\ st_out[1].kind = "ip"
    /\ st_out[2].kind = "ra"
    /\ st_out[1].mode # st_out[2].mode

\* ------------------------------------------------ PE mapping correlator

\* Start addresses and sizes drawn for mappings and queries.
MaxPeAddr == 3
MaxPeSize == 3

\* BTreeMap::insert: the entries stay in key order, one entry per key.
btree_insert(map, key, value) ==
    LET below == SelectSeq(map, LAMBDA en : en.key < key)
        above == SelectSeq(map, LAMBDA en : en.key > key)
    IN  below \o <<[key |-> key, value |-> value]>> \o above

\* Mutant: range(..=key).next(), the least entry.
btree_first_at_most(map, key) ==
    LET upto == SelectSeq(map, LAMBDA en : en.key <= key)
    IN  IF upto = <<>> THEN None ELSE Some(upto[1].value)

\* BTreeMap::range(..=key).next_back().map(|(_, m)| m): the entry of the
\* greatest key at most `key`.
btree_last_at_most(map, key) ==
    LET upto == SelectSeq(map, LAMBDA en : en.key <= key)
    IN  IF upto = <<>> THEN None ELSE Some(upto[Len(upto)].value)

\* The filter of the lookup.
pe_mapping_contains(m, mapping_start_avma, mapping_size) ==
    /\ mapping_start_avma >= m.start
    /\ mapping_start_avma + mapping_size <= m.start + m.size

\* add_module_to_process: the suspected PE mapping of a mapping whose file
\* could not be opened.
find_suspected_pe_mapping(map, mapping_start_avma, mapping_size) ==
    LET found == btree_last_at_most(map, mapping_start_avma)
    IN  IF found.some /\ pe_mapping_contains(found.v, mapping_start_avma, mapping_size)
        THEN found
        ELSE None

\* Mutant: the extension check for the lower-case suffixes alone.
filename_is_pe_lowercase(path_slice) ==
    str_ends_with(path_slice, ".exe") \/ str_ends_with(path_slice, ".dll")

\* The extension check of check_for_pe_mapping.
filename_is_pe(path_slice) ==
    \/ str_ends_with(path_slice, ".exe")
    \/ str_ends_with(path_slice, ".dll")
    \/ str_ends_with(path_slice, ".EXE")
    \/ str_ends_with(path_slice, ".DLL")

PePaths == {"game.exe", "libc.so"}

\* Converter::check_for_pe_mapping.  get_pe_mapping_size reads the file:
\* `size` is what it returns (NoneT when the file does not parse as PE).
check_for_pe_mapping(map, path_slice, mapping_start_avma, size) ==
    IF ~filename_is_pe(path_slice)
    THEN map
    ELSE IF size # NoneT
         THEN btree_insert(map, mapping_start_avma,
                           [path |-> path_slice, start |-> mapping_start_avma,
                            size |-> size])
         ELSE map

InitPe ==
    /\ OffIdle
    /\ HelperIdle
    /\ StackIdle
    /\ PeIdle
    /\ RssIdle
    /\ LoadIdle
    /\ CoreIdle

\* A mapping record with file offset 0.
RegisterPeMapping ==
    \E path \in PePaths, start \in 0..MaxPeAddr, size \in {NoneT} \cup 1..MaxPeSize :
        /\ suspected_pe_mappings' =
               check_for_pe_mapping(suspected_pe_mappings, path, start, size)
        /\ pe_query' = None
        /\ UNCHANGED <<varsHelper, pe_registrants, varsOff, varsStack, varsRss, varsCore, varsLoad>>

\* A mapping whose file could not be opened.
LookupPeMapping ==
    \E a \in 0..MaxPeAddr, sz \in 0..MaxPeSize :
        /\ pe_query' = Some([a |-> a, s |-> sz,
                             result |-> find_suspected_pe_mapping(
                                            suspected_pe_mappings, a, sz)])
        /\ UNCHANGED <<varsHelper, suspected_pe_mappings, pe_registrants, varsOff, varsStack, varsRss, varsCore, varsLoad>>

NextPe == RegisterPeMapping \/ LookupPeMapping

SpecPe == InitPe /\ [][NextPe]_vars

PeCandidates == {suspected_pe_mappings[i].value : i \in DOMAIN suspected_pe_mappings}

\* C7 (as amended): a query (a, s) matches candidate c iff c is the
\* candidate of the greatest start at most a and a + s <= c.start + c.size
\* (sums that fit 64 bits); a candidate of a lower start that contains the
\* range is not matched; at most one candidate matches.
PeLookupGreatestLowerBound ==
    pe_query.some =>
        LET q == pe_query.v
        IN  /\ \A c \in PeCandidates :
                 (q.result = Some(c)) <=>
                     /\ c.start <= q.a
                     /\ \A d \in PeCandidates : d.start <= q.a => d.start <= c.start
                     /\ q.a + q.s <= c.start + c.size
            /\ q.result.some => q.result.v \in PeCandidates

\* C7 as stated: a query matches c iff c contains the range.
PeLookupContainment ==
    pe_query.some =>
        LET q == pe_query.v
        IN  \A c \in PeCandidates :
                (q.result = Some(c)) <=>
                    (q.a >= c.start /\ q.a + q.s <= c.start + c.size)

PeLookupWitness ==
    /\ pe_query.some
    /\ pe_query.v.result.some
    /\ Cardinality(PeCandidates) >= 2
    /\ pe_query.v.a > pe_query.v.result.v.start
    /\ \E c \in PeCandidates : c.start < pe_query.v.result.v.start

\* ------------------------------------------------------ RSS accounting

\* Records handled per run, and the largest size a record reports.
MaxRssRecords == 3
MaxRssSize == 1

\* RssStatMember of a known member.
RssStatMember(member) ==
    CASE member = MM_FILEPAGES -> "ResidentFileMappingPages"
      [] member = MM_ANONPAGES -> "ResidentAnonymousPages"
      [] member = MM_SHMEMPAGES -> "ResidentSharedMemoryPages"
      [] member = MM_SWAPENTS -> "AnonymousSwapEntries"

\* Mutant: the delta is taken after the prior value was overwritten.
rss_delta_after_update(size, prev_size_of_this_member) == size - size

\* let delta = rss_stat.size - *prev_size_of_this_member;
rss_delta(size, prev_size_of_this_member) == size - prev_size_of_this_member

\* Mutant: every member drives the memory counter.
drives_counter_any(member) == TRUE

\* if rss_stat.member == MM_ANONPAGES
drives_counter(member) == member = MM_ANONPAGES

\* The parsed payloads drawn: None for a record without raw data or whose
\* payload does not parse; member 4 is a member the converter does not know.
RssPayloads ==
    {None} \cup {Some([member |-> m, size |-> sz]) :
                    m \in RssMembers \cup {4}, sz \in 0..MaxRssSize}

RssRecordsHandled ==
    Len(rss_seen[1]) + Len(rss_seen[2])

\* Mutant: only the member that drives the memory counter gets a marker.
rss_is_taken_anon_only(rss_stat, timestamp_mono) ==
    IF ~rss_stat.some
    THEN FALSE
    ELSE timestamp_mono # NoneT /\ rss_stat.v.member = MM_ANONPAGES

\* Whether handle_rss_stat gets past its early returns: the payload parses,
\* the record has a timestamp, and the member is one of the four.
rss_is_taken(rss_stat, timestamp_mono) ==
    IF ~rss_stat.some
    THEN FALSE
    ELSE IF timestamp_mono = NoneT
         THEN FALSE
         ELSE rss_stat.v.member \in RssMembers

\* The stack handle_rss_stat gives to the marker: the frames of
\* get_sample_stack, kernel frames included, callers first.
rss_stat_stack(e, fold) == convert(Reverse(get_sample_stack(e, fold)))

\* The stack fields of the records of this section: kernel frames over user
\* frames, from the callchain.
RssSampleShape ==
    [callchain |-> Some(<<PERF_CONTEXT_KERNEL, 2, PERF_CONTEXT_USER, 1>>),
     dwarf |-> None, ip |-> 2, cpu_mode |-> "Kernel"]

\* Converter::handle_rss_stat for a record of process pid whose payload
\* parses to rss_stat, with timestamp timestamp_mono (NoneT when missing)
\* and whose assembled stack converts to unresolved_stack.
handle_rss_stat(pid, rss_stat, timestamp_mono, unresolved_stack) ==
    IF ~rss_is_taken(rss_stat, timestamp_mono)
    THEN UNCHANGED varsRss
    ELSE LET member == rss_stat.v.member
             size == rss_stat.v.size
             delta == rss_delta(size, rss_prev[pid][member])
         IN  /\ rss_prev' = [rss_prev EXCEPT ![pid][member] = size]
             /\ rss_counter' =
                    IF drives_counter(member)
                    THEN [rss_counter EXCEPT ![pid] =
                             Append(@, [timestamp |-> convert_time(0, timestamp_mono),
                                        value |-> delta, weight |-> 1])]
                    ELSE rss_counter
             /\ rss_markers' =
                    [rss_markers EXCEPT ![pid] =
                        Append(@, [timestamp |-> convert_time(0, timestamp_mono),
                                   timestamp_mono |-> timestamp_mono,
                                   stack |-> unresolved_stack,
                                   member |-> RssStatMember(member),
                                   size |-> size, delta |-> delta])]
             /\ rss_seen' = [rss_seen EXCEPT ![pid] =
                                Append(@, [member |-> member, size |-> size])]

InitRss ==
    /\ OffIdle
    /\ HelperIdle
    /\ StackIdle
    /\ PeIdle
    /\ RssIdle
    /\ LoadIdle
    /\ CoreIdle

\* An RssStat record that is taken.
HandleRssStat ==
    \E pid \in RssPids, rss_stat \in RssPayloads :
        /\ RssRecordsHandled < MaxRssRecords
        /\ rss_is_taken(rss_stat, Tick)
        /\ handle_rss_stat(pid, rss_stat, Tick, rss_stat_stack(RssSampleShape, FALSE))
        /\ UNCHANGED <<varsHelper, varsOff, varsStack, varsPe, varsCore, varsLoad>>

\* An RssStat record that is skipped: no payload, a payload that does not
\* parse, an unknown member, or no timestamp.
SkipRssStat ==
    \E pid \in RssPids, rss_stat \in RssPayloads, ts \in {NoneT, Tick} :
        /\ RssRecordsHandled < MaxRssRecords
        /\ ~rss_is_taken(rss_stat, ts)
        /\ handle_rss_stat(pid, rss_stat, ts, rss_stat_stack(RssSampleShape, FALSE))
        /\ UNCHANGED <<varsHelper, varsOff, varsStack, varsPe, varsCore, varsLoad>>

NextRss == HandleRssStat \/ SkipRssStat

SpecRss == InitRss /\ [][NextRss]_vars

RECURSIVE SumValues(_)
SumValues(s) == IF s = <<>> THEN 0 ELSE Head(s).value + SumValues(Tail(s))

\* The markers of one member of one process, in order.
MarkersOf(pid, member) ==
    SelectSeq(rss_markers[pid], LAMBDA mk : mk.member = RssStatMember(member))

StepTookOtherMember(pid) ==
    /\ Len(rss_seen'[pid]) = Len(rss_seen[pid]) + 1
    /\ rss_seen'[pid][Len(rss_seen'[pid])].member # MM_ANONPAGES

\* C12: an RssStat record for file, shmem or swap pages adds no sample to
\* any memory counter and sets only its own member's prior value, to the
\* size it reports; the anon prior and the priors of the other members and
\* processes are unchanged.
OnlyAnonDrivesCounter ==
    [][\A pid \in RssPids :
          StepTookOtherMember(pid) =>
              LET taken == rss_seen'[pid][Len(rss_seen'[pid])]
              IN  /\ rss_counter' = rss_counter
                  /\ rss_prev'[pid][taken.member] = taken.size
                  /\ \A p \in RssPids, m \in RssMembers :
                        (p # pid \/ m # taken.member)
                            => rss_prev'[p][m] = rss_prev[p][m]]_vars

\* A file-pages record of size 1 was taken after an anon record of size 1:
\* the counter holds the one anon sample and both priors are 1.
OnlyAnonDrivesCounterWitness ==
    /\ Len(rss_seen[1]) = 2
    /\ rss_seen[1][1] = [member |-> MM_ANONPAGES, size |-> 1]
    /\ rss_seen[1][2] = [member |-> MM_FILEPAGES, size |-> 1]
    /\ Len(rss_counter[1]) = 1
    /\ rss_prev[1][MM_ANONPAGES] = 1
    /\ rss_prev[1][MM_FILEPAGES] = 1

\* ------------------------------------------- processes and threads
\*
\* The converter's state is one record c: current_sample_time, the
\* process table (processes_by_pid: pid -> process handle, 0 when absent),
\* the Process objects by process handle, the Thread objects by thread
\* handle, and the ended processes kept for reuse.  A handle is the
\* profile's handle of the entity; start_time and end_time are what the
\* profile holds for it.

Pids == {1, 2}
\* The pid of the mapping records of the kernel.
KernelPid == 0 - 1
Tids == {1, 2, 3}

NoName == "<none>"

\* ThreadContextSwitchData of a thread never heard of.
NewContextSwitchData ==
    [last_switch_in |-> NoneT, on_cpu_ns |-> 0, last_switch_out |-> NoneT]

\* Thread::new, with the handle's start time in the profile.
NewThread(tid) ==
    [tid |-> tid, name |-> NoName, last_sample_timestamp |-> NoneT,
     off_cpu_stack |-> None, context_switch_data |-> NewContextSwitchData,
     start_time |-> 0, end_time |-> NoneT]

\* Process::new: its main thread has the handle main_thread.
NewProcess(pid, main_thread) ==
    [pid |-> pid, name |-> NoName, main_thread |-> main_thread,
     threads_by_tid |-> [t \in Tids |-> 0], ended_threads |-> <<>>,
     unresolved_samples |-> <<>>, start_time |-> 0, end_time |-> NoneT]

\* What the deferred product-name generator makes of a thread name.
generated_product(name) == <<"product of", name>>

\* Converter::new; delayed_product_name_generator tells whether a generator
\* was passed, and generator_calls lists the names it was invoked with.
NewConverter(first_sample_time, delayed_product_name_generator) ==
    [current_sample_time |-> first_sample_time,
     first_sample_time |-> first_sample_time,
     product |-> <<"product">>,
     have_product_name |-> ~delayed_product_name_generator,
     delayed_product_name_generator |-> delayed_product_name_generator,
     generator_calls |-> <<>>,
     processes_by_pid |-> [p \in Pids \cup {KernelPid} |-> 0],
     processes |-> <<>>,
     threads |-> <<>>,
     ended_processes |-> <<>>]

\* Processes::get_by_pid: the process, created when absent.
get_by_pid(c, pid) ==
    IF c.processes_by_pid[pid] # 0
    THEN c
    ELSE [c EXCEPT !.threads = Append(@, NewThread(pid)),
                   !.processes = Append(@, NewProcess(pid, Len(c.threads) + 1)),
                   !.processes_by_pid[pid] = Len(c.processes) + 1]

\* The handle of the thread tid of the live process pid (0 when absent).
ThreadOf(c, pid, tid) ==
    LET process == c.processes[c.processes_by_pid[pid]]
    IN  IF tid = process.pid THEN process.main_thread ELSE process.threads_by_tid[tid]

\* Threads::get_thread_by_tid of the live process pid: the thread, created
\* when absent.
get_thread_by_tid(c, pid, tid) ==
    IF ThreadOf(c, pid, tid) # 0
    THEN c
    ELSE [c EXCEPT !.threads = Append(@, NewThread(tid)),
                   !.processes[c.processes_by_pid[pid]].threads_by_tid[tid] =
                       Len(c.threads) + 1]

\* The first index of name in a sequence of names (0 when absent).
FirstIndex(names, name) ==
    IF \E i \in 1..Len(names) : names[i] = name
    THEN CHOOSE i \in 1..Len(names) :
             names[i] = name /\ \A j \in 1..(i - 1) : names[j] # name
    ELSE 0

\* The sequence f[1], ..., f[n].
RECURSIVE FirstN(_, _)
FirstN(f, n) == IF n = 0 THEN <<>> ELSE Append(FirstN(f, n - 1), f[n])

RemoveAt(seq, i) == SubSeq(seq, 1, i - 1) \o SubSeq(seq, i + 1, Len(seq))

\* Processes::remove: the process ends at end_time with its threads and
\* leaves the table; with reuse allowed it is kept for reuse.
processes_remove(c, pid, end_time, allow_reuse) ==
    IF c.processes_by_pid[pid] = 0
    THEN c
    ELSE LET ph == c.processes_by_pid[pid]
             process == c.processes[ph]
             mine == {process.main_thread} \cup
                     {process.threads_by_tid[t] : t \in Tids}
         IN  [c EXCEPT
                 !.processes_by_pid[pid] = 0,
                 !.processes[ph].end_time = end_time,
                 !.threads = FirstN([h \in 1..Len(c.threads) |->
                                        IF h \in mine
                                        THEN [c.threads[h] EXCEPT !.end_time = end_time]
                                        ELSE c.threads[h]],
                                    Len(c.threads)),
                 !.ended_processes = IF allow_reuse THEN Append(@, ph) ELSE @]

\* Processes::attempt_reuse: an ended process of that name is bound to pid
\* again.  [c, reused].
attempt_reuse(c, pid, name) ==
    LET i == FirstIndex([k \in 1..Len(c.ended_processes) |->
                            c.processes[c.ended_processes[k]].name], name)
    IN  IF i = 0
        THEN [c |-> c, reused |-> FALSE]
        ELSE LET ph == c.ended_processes[i]
                 th == c.processes[ph].main_thread
             IN  [c |-> [c EXCEPT !.ended_processes = RemoveAt(@, i),
                                  !.processes_by_pid[pid] = ph,
                                  !.processes[ph].pid = pid,
                                  !.processes[ph].end_time = NoneT,
                                  !.threads[th].tid = pid,
                                  !.threads[th].end_time = NoneT],
                  reused |-> TRUE]

\* Threads::remove_non_main_thread of the live process pid.
remove_non_main_thread(c, pid, tid, end_time, merge_threads) ==
    LET ph == c.processes_by_pid[pid]
        h == c.processes[ph].threads_by_tid[tid]
    IN  IF h = 0
        THEN c
        ELSE [c EXCEPT
                 !.threads[h].end_time = end_time,
                 !.processes[ph].threads_by_tid[tid] = 0,
                 !.processes[ph].ended_threads =
                     IF merge_threads THEN Append(@, h) ELSE @]

\* Threads::attempt_thread_reuse of the live process pid.  [c, reused].
attempt_thread_reuse(c, pid, tid, name) ==
    LET ph == c.processes_by_pid[pid]
        pool == c.processes[ph].ended_threads
        i == FirstIndex([k \in 1..Len(pool) |-> c.threads[pool[k]].name], name)
    IN  IF i = 0
        THEN [c |-> c, reused |-> FALSE]
        ELSE [c |-> [c EXCEPT !.processes[ph].ended_threads = RemoveAt(@, i),
                              !.processes[ph].threads_by_tid[tid] = pool[i],
                              !.threads[pool[i]].tid = tid,
                              !.threads[pool[i]].end_time = NoneT],
              reused |-> TRUE]

\* ------------------------------------------- context-switch tracker

\* ContextSwitchHandler::handle_sample: a thread that was switched out
\* yields the off-CPU group of the interval and is on-CPU from timestamp
\* on; a thread already on-CPU accumulates its running time.
\* [group, data].
csh_handle_sample(timestamp, data, interval) ==
    IF data.last_switch_out # NoneT
    THEN [group |-> off_cpu_group(data.last_switch_out, timestamp, interval),
          data |-> [data EXCEPT !.last_switch_out = NoneT,
                                !.last_switch_in = timestamp]]
    ELSE IF data.last_switch_in # NoneT
         THEN [group |-> NoGroup,
               data |-> [data EXCEPT !.on_cpu_ns = @ + (timestamp - data.last_switch_in),
                                     !.last_switch_in = timestamp]]
         ELSE [group |-> NoGroup,
               data |-> [data EXCEPT !.last_switch_in = timestamp]]

\* ContextSwitchHandler::handle_switch_in: symmetric to handle_sample.
csh_handle_switch_in(timestamp, data, interval) ==
    csh_handle_sample(timestamp, data, interval)

\* ContextSwitchHandler::handle_switch_out: the running time is
\* accumulated and the switch-out time recorded.
csh_handle_switch_out(timestamp, data) ==
    IF data.last_switch_in # NoneT
    THEN [data EXCEPT !.on_cpu_ns = @ + (timestamp - data.last_switch_in),
                      !.last_switch_in = NoneT,
                      !.last_switch_out = timestamp]
    ELSE [data EXCEPT !.last_switch_out = timestamp]

\* ContextSwitchHandler::consume_cpu_delta: the state after the accumulated
\* on-CPU time (data.on_cpu_ns) has been returned.
consume_cpu_delta(data) == [data EXCEPT !.on_cpu_ns = 0]

\* ------------------------------------------------- the record handlers
\*
\* A handler is a function of the converter and the record.  A stack handle
\* of UnresolvedStacks is modelled by the frames it interns, root first.

\* UnresolvedStacks::convert_no_kernel: the kernel frames are left out.
convert_no_kernel(frames) ==
    SelectSeq(frames, LAMBDA frame : frame.mode # "Kernel")

\* The handle of the live process pid (0 when absent).
ProcessHandle(c, pid) == c.processes_by_pid[pid]

\* The expect()s of the sample-shaped handlers.
sample_is_missing_fields(e) ==
    e.pid = NoneT \/ e.tid = NoneT \/ e.timestamp = NoneT

\* Mutant: no sample is taken for a duplicate.
is_duplicate_never(last_sample_timestamp, timestamp) == FALSE

\* thread.last_sample_timestamp == Some(timestamp)
is_duplicate(last_sample_timestamp, timestamp) ==
    last_sample_timestamp = timestamp

\* Mutant: the saved stack is taken only when there is a group for it.
off_cpu_stack_taken_with_group(off_cpu_stack, group) ==
    IF group.some THEN None ELSE off_cpu_stack

\* thread.off_cpu_stack after (off_cpu_sample, thread.off_cpu_stack.take()).
off_cpu_stack_taken(off_cpu_stack, group) == None

\* Mutant: a group appends nothing.
off_cpu_samples_never(group, off_cpu_stack, h, data, c, cfg) == <<>>

\* The samples the `if let (Some(off_cpu_sample), Some(off_cpu_stack))`
\* appends.
off_cpu_samples(group, off_cpu_stack, h, data, c, cfg) ==
    IF group.some /\ off_cpu_stack.some
    THEN process_off_cpu_sample_group(
             group, h, data.on_cpu_ns, c.first_sample_time,
             off_cpu_weight_per_sample(cfg.sampling_is_time_based),
             off_cpu_stack.v)
    ELSE <<>>

\* Mutant: the accumulated time stays in the tracker after a group.
off_cpu_consumed_never(group, off_cpu_stack, data) == data

\* The tracker's state after that `if let`.
off_cpu_consumed(group, off_cpu_stack, data) ==
    IF group.some /\ off_cpu_stack.some THEN consume_cpu_delta(data) ELSE data

\* Mutant: the real sample is appended before the off-CPU samples.
samples_appended_real_first(off, sample) == <<sample>> \o off

\* What handle_sample appends: the off-CPU samples, then the real sample.
samples_appended(off, sample) == off \o <<sample>>

\* Converter::handle_sample, for a record with pid, tid and timestamp.
handle_sample(c, e, cfg) ==
    LET timestamp == e.timestamp
        c1 == get_by_pid([c EXCEPT !.current_sample_time = timestamp], e.pid)
        stack == get_sample_stack(e, cfg.fold_recursive_prefix)
        c2 == get_thread_by_tid(c1, e.pid, e.tid)
        ph == ProcessHandle(c2, e.pid)
        h == ThreadOf(c2, e.pid, e.tid)
        thread == c2.threads[h]
    IN  IF is_duplicate(thread.last_sample_timestamp, timestamp)
        THEN c2
        ELSE LET r == csh_handle_sample(
                          timestamp, thread.context_switch_data,
                          off_cpu_sampling_interval_ns(cfg.sampling_is_time_based))
                 off == off_cpu_samples(r.group, thread.off_cpu_stack, h, r.data, c2, cfg)
                 data == off_cpu_consumed(r.group, thread.off_cpu_stack, r.data)
                 cpu_delta == IF cfg.have_context_switches THEN data.on_cpu_ns
                              ELSE IF e.period # NoneT THEN e.period
                              ELSE 0
                 sample == Sample(h, convert_time(c2.first_sample_time, timestamp),
                                  timestamp, convert(Reverse(stack)), cpu_delta, 1)
             IN  [c2 EXCEPT
                    !.threads[h].last_sample_timestamp = timestamp,
                    !.threads[h].off_cpu_stack =
                        off_cpu_stack_taken(thread.off_cpu_stack, r.group),
                    !.threads[h].context_switch_data =
                        IF cfg.have_context_switches
                        THEN consume_cpu_delta(data) ELSE data,
                    !.processes[ph].unresolved_samples =
                        @ \o samples_appended(off, sample)]

\* Mutant: the saved stack keeps its kernel frames.
handle_sched_switch_with_kernel(c, e, cfg) ==
    LET c1 == get_by_pid(c, e.pid)
        stack == get_sample_stack(e, cfg.fold_recursive_prefix)
        c2 == get_thread_by_tid(c1, e.pid, e.tid)
        h == ThreadOf(c2, e.pid, e.tid)
    IN  [c2 EXCEPT !.threads[h].off_cpu_stack = Some(convert(Reverse(stack)))]

\* Converter::handle_sched_switch, for a record with pid and tid.
handle_sched_switch(c, e, cfg) ==
    LET c1 == get_by_pid(c, e.pid)
        stack == get_sample_stack(e, cfg.fold_recursive_prefix)
        c2 == get_thread_by_tid(c1, e.pid, e.tid)
        h == ThreadOf(c2, e.pid, e.tid)
    IN  [c2 EXCEPT !.threads[h].off_cpu_stack =
                       Some(convert_no_kernel(Reverse(stack)))]

\* Converter::handle_context_switch, for a record with pid, tid and
\* timestamp; e.switch is "In" or "Out".
handle_context_switch(c, e, cfg) ==
    LET timestamp == e.timestamp
        c1 == get_thread_by_tid(get_by_pid(c, e.pid), e.pid, e.tid)
        ph == ProcessHandle(c1, e.pid)
        h == ThreadOf(c1, e.pid, e.tid)
        thread == c1.threads[h]
    IN  IF e.switch = "In"
        THEN LET r == csh_handle_switch_in(
                          timestamp, thread.context_switch_data,
                          off_cpu_sampling_interval_ns(cfg.sampling_is_time_based))
             IN  [c1 EXCEPT
                    !.threads[h].off_cpu_stack =
                        off_cpu_stack_taken(thread.off_cpu_stack, r.group),
                    !.threads[h].context_switch_data =
                        off_cpu_consumed(r.group, thread.off_cpu_stack, r.data),
                    !.processes[ph].unresolved_samples =
                        @ \o off_cpu_samples(r.group, thread.off_cpu_stack, h,
                                             r.data, c1, cfg)]
        ELSE [c1 EXCEPT !.threads[h].context_switch_data =
                            csh_handle_switch_out(timestamp, @)]

\* Mutant: the Fork's time is stamped on a reused entity too.
fork_start_time_always(is_reused, earlier, start_time) == start_time

\* if !is_reused { set_process_start_time / set_thread_start_time }
fork_start_time(is_reused, earlier, start_time) ==
    IF is_reused THEN earlier ELSE start_time

\* Converter::handle_thread_start (FORK).
handle_thread_start(c, e, cfg) ==
    LET start_time == convert_time(c.first_sample_time, e.timestamp)
        c1 == get_by_pid(c, e.ppid)
        parent_process_name == c1.processes[ProcessHandle(c1, e.ppid)].name
        c2 == get_thread_by_tid(c1, e.ppid, e.ptid)
        parent_thread_name == c2.threads[ThreadOf(c2, e.ppid, e.ptid)].name
    IN  IF e.pid # e.ppid
        THEN LET r == IF parent_process_name # NoName
                      THEN attempt_reuse(c2, e.pid, parent_process_name)
                      ELSE [c |-> c2, reused |-> FALSE]
                 c3 == get_by_pid(r.c, e.pid)
                 ph == ProcessHandle(c3, e.pid)
                 h == c3.processes[ph].main_thread
             IN  [c3 EXCEPT
                    !.processes[ph].name = parent_process_name,
                    !.threads[h].name = parent_thread_name,
                    !.processes[ph].start_time = fork_start_time(r.reused, @, start_time),
                    !.threads[h].start_time = fork_start_time(r.reused, @, start_time)]
        ELSE LET r == IF parent_thread_name # NoName
                      THEN attempt_thread_reuse(c2, e.ppid, e.tid, parent_thread_name)
                      ELSE [c |-> c2, reused |-> FALSE]
                 c3 == get_thread_by_tid(r.c, e.ppid, e.tid)
                 h == ThreadOf(c3, e.ppid, e.tid)
             IN  [c3 EXCEPT
                    !.threads[h].name = parent_thread_name,
                    !.threads[h].start_time = fork_start_time(r.reused, @, start_time)]

\* Mutant: every Exit is taken for the main thread's.
exit_is_main_always(e) == TRUE

\* let is_main = e.pid == e.tid;
exit_is_main(e) == e.pid = e.tid

\* Converter::handle_thread_end (EXIT).
handle_thread_end(c, e, cfg) ==
    LET end_time == convert_time(c.first_sample_time, e.timestamp)
    IN  IF exit_is_main(e)
        THEN processes_remove(c, e.pid, end_time, cfg.merge_threads)
        ELSE remove_non_main_thread(get_by_pid(c, e.pid), e.pid, e.tid,
                                    end_time, cfg.merge_threads)

\* Mutant: the generator runs for the recorder stub's name too.
generator_runs_for_any_name(pending, name) == pending

\* self.delayed_product_name_generator.is_some() && name != "perf-exec"
generator_runs(pending, name) == pending /\ name # "perf-exec"

\* Converter::set_thread_name.
set_thread_name(c, pid, tid, name, is_thread_creation) ==
    LET c1 == get_thread_by_tid(get_by_pid(c, pid), pid, tid)
        ph == ProcessHandle(c1, pid)
        h == ThreadOf(c1, pid, tid)
        time == convert_time(c.first_sample_time, c.current_sample_time)
        runs == generator_runs(c.delayed_product_name_generator, name)
    IN  [c1 EXCEPT
           !.threads[h].name = name,
           !.processes[ph].name = IF pid = tid THEN name ELSE @,
           !.threads[h].start_time = IF is_thread_creation THEN time ELSE @,
           !.processes[ph].start_time =
               IF is_thread_creation /\ pid = tid THEN time ELSE @,
           !.delayed_product_name_generator = IF runs THEN FALSE ELSE @,
           !.generator_calls = IF runs THEN Append(@, name) ELSE @,
           !.product = IF runs THEN generated_product(name) ELSE @,
           !.have_product_name = IF runs THEN TRUE ELSE @]

\* Mutant: a COMM record without a timestamp ends the old entity at the
\* reference time.
comm_end_timestamp_of_reference(c, timestamp) ==
    IF timestamp = NoneT \/ timestamp = 0 THEN c.first_sample_time ELSE timestamp

\* The time a COMM record ends the old thread or process at.
comm_end_timestamp(c, timestamp) ==
    IF timestamp = NoneT \/ timestamp = 0 THEN c.current_sample_time ELSE timestamp

\* Mutant: a plain rename counts as a thread creation.
plain_rename_as_creation(c) == [c |-> c, reused |-> FALSE]

\* A COMM record that retires nothing: is_thread_creation is false.
plain_rename(c) == [c |-> c, reused |-> TRUE]

\* Converter::handle_thread_name_update (COMM); timestamp is NoneT or the
\* record's.
handle_thread_name_update(c, e, timestamp, cfg) ==
    LET end_time == convert_time(c.first_sample_time, comm_end_timestamp(c, timestamp))
        retire_thread ==
            attempt_thread_reuse(
                remove_non_main_thread(get_by_pid(c, e.pid), e.pid, e.tid,
                                       end_time, cfg.merge_threads),
                e.pid, e.tid, e.name)
        retire_process ==
            attempt_reuse(processes_remove(c, e.pid, end_time, cfg.merge_threads),
                          e.pid, e.name)
        r == IF e.is_execve
             THEN IF e.pid = e.tid THEN retire_process ELSE retire_thread
             ELSE IF cfg.merge_threads /\ e.pid # e.tid
                  THEN retire_thread
                  ELSE plain_rename(c)
    IN  set_thread_name(r.c, e.pid, e.tid, e.name, ~r.reused)

\* Converter::handle_mmap2 for a path that is no jitdump file and a build
\* id in the record: an executable mapping reaches add_module_to_process.
\* TRUE when its from_utf8(path_slice).unwrap() panics.
mmap2_panics(e) == e.is_executable /\ ~e.path_is_utf8

\* Converter::handle_mmap2 up to add_module_to_process's get_by_pid.
handle_mmap2(c, e) ==
    IF e.is_executable THEN get_by_pid(c, e.pid) ELSE c

\* ------------------------------------------------------ the dispatcher

\* Most records handled in one run.
MaxRecords == 4

\* The time of the first record of the stream.
FirstSampleTime == Tick

\* A timestamp-ordered stream: a record is this much later than the one
\* before it.
Deltas == {0, Tick, 2 * Tick}

\* A sample-shaped record (Sample, SchedSwitch): kernel frames over user
\* frames.  clock_like tells whether the record's event is one of the clock
\* events or cycles; no handler reads it.
SampleRecord(kind, pid, tid, timestamp) ==
    [kind |-> kind, pid |-> pid, tid |-> tid, timestamp |-> timestamp,
     period |-> Tick, clock_like |-> TRUE,
     callchain |-> Some(<<PERF_CONTEXT_KERNEL, 2, PERF_CONTEXT_USER, 1>>),
     dwarf |-> None, ip |-> 2, cpu_mode |-> "Kernel"]

ContextSwitchRecord(switch, pid, tid, timestamp) ==
    [kind |-> "ContextSwitch", switch |-> switch,
     pid |-> pid, tid |-> tid, timestamp |-> timestamp]

ForkOrExitRecord(kind, pid, ppid, tid, ptid, timestamp) ==
    [kind |-> kind, pid |-> pid, ppid |-> ppid, tid |-> tid, ptid |-> ptid,
     timestamp |-> timestamp]

CommOrExecRecord(pid, tid, name, is_execve, timestamp) ==
    [kind |-> "Comm", pid |-> pid, tid |-> tid, name |-> name,
     is_execve |-> is_execve, timestamp |-> timestamp]

Mmap2Record(pid, is_executable, path_is_utf8, timestamp) ==
    [kind |-> "Mmap2", pid |-> pid, is_executable |-> is_executable,
     path_is_utf8 |-> path_is_utf8, timestamp |-> timestamp]

Configs ==
    [sampling_is_time_based : {NoneT, Tick},
     have_context_switches : BOOLEAN,
     merge_threads : BOOLEAN,
     fold_recursive_prefix : {FALSE}]

\* The state after Converter::new, for the configurations cfgs, with
\* (TRUE) or without (FALSE) a deferred product-name generator.
InitCore(cfgs, generators) ==
    /\ OffIdle
    /\ HelperIdle
    /\ StackIdle
    /\ PeIdle
    /\ RssIdle
    /\ LoadIdle
    /\ \E g \in generators : converter = NewConverter(FirstSampleTime, g)
    /\ config \in cfgs
    /\ clock = FirstSampleTime
    /\ handled = 0
    /\ last_record = NoneT
    /\ aborted = FALSE

\* The time of record e in the stream: its own, or the stream's when the
\* record carries none (absent or zero).
RecordTime(e) ==
    IF e.timestamp = NoneT \/ e.timestamp = 0 THEN clock ELSE e.timestamp

\* One record is taken from the stream; c is the converter after it.
Handled(e, c) ==
    /\ ~aborted
    /\ handled < MaxRecords
    /\ converter' = c
    /\ clock' = RecordTime(e)
    /\ handled' = handled + 1
    /\ last_record' = e
    /\ UNCHANGED <<varsHelper, config, aborted, varsOff, varsStack, varsPe, varsRss, varsLoad>>

\* One record is taken from the stream and its handler panics.
Panicked(e) ==
    /\ ~aborted
    /\ handled < MaxRecords
    /\ aborted' = TRUE
    /\ last_record' = e
    /\ UNCHANGED <<varsHelper, converter, config, clock, handled,
                   varsOff, varsStack, varsPe, varsRss, varsLoad>>

HandleSample(e) ==
    IF sample_is_missing_fields(e)
    THEN Panicked(e)
    ELSE Handled(e, handle_sample(converter, e, config))

HandleSchedSwitch(e) ==
    IF e.pid = NoneT \/ e.tid = NoneT
    THEN Panicked(e)
    ELSE Handled(e, handle_sched_switch(converter, e, config))

HandleContextSwitch(e) ==
    IF sample_is_missing_fields(e)
    THEN Panicked(e)
    ELSE Handled(e, handle_context_switch(converter, e, config))

HandleThreadStart(e) == Handled(e, handle_thread_start(converter, e, config))

HandleThreadEnd(e) == Handled(e, handle_thread_end(converter, e, config))

HandleThreadNameUpdate(e) ==
    Handled(e, handle_thread_name_update(converter, e, e.timestamp, config))

HandleMmap2(e) ==
    IF mmap2_panics(e)
    THEN Panicked(e)
    ELSE Handled(e, handle_mmap2(converter, e))

\* ---- on-CPU and off-CPU accounting of one thread of one process ----

CpuPid == 1
CpuTid == 2

InitCpu == InitCore({cfg \in Configs : ~cfg.merge_threads}, {FALSE})

NextCpu ==
    \/ \E d \in Deltas : HandleSample(SampleRecord("Sample", CpuPid, CpuTid, clock + d))
    \/ HandleSchedSwitch(SampleRecord("SchedSwitch", CpuPid, CpuTid, clock))
    \/ \E d \in Deltas, switch \in {"In", "Out"} :
          HandleContextSwitch(ContextSwitchRecord(switch, CpuPid, CpuTid, clock + d))
    \/ HandleThreadEnd(ForkOrExitRecord("Exit", CpuPid, CpuPid, CpuTid, CpuTid, clock))
    \/ HandleThreadStart(ForkOrExitRecord("Fork", CpuPid, CpuPid, CpuTid, CpuPid, clock))

SpecCpu == InitCpu /\ [][NextCpu]_vars

\* The handle of the live thread tid of pid in c (0 when there is none).
LiveThread(c, pid, tid) ==
    IF ProcessHandle(c, pid) = 0 THEN 0 ELSE ThreadOf(c, pid, tid)

\* The sample store of the live process pid in c.
StoreOf(c, pid) ==
    IF ProcessHandle(c, pid) = 0 THEN <<>>
    ELSE c.processes[ProcessHandle(c, pid)].unresolved_samples

\* The stacks of the model's sample-shaped records: a real sample's, and
\* the one a SchedSwitch saves.
RealStack ==
    convert(Reverse(get_sample_stack(SampleRecord("Sample", 1, 1, 0), FALSE)))
SavedStack ==
    convert_no_kernel(Reverse(get_sample_stack(SampleRecord("SchedSwitch", 1, 1, 0), FALSE)))

IsRealSample(sample) == sample.stack = RealStack
IsOffCpuSample(sample) == sample.stack = SavedStack

\* The samples of thread handle h in a store, in order.
SamplesOfThread(store, h) == SelectSeq(store, LAMBDA sample : sample.thread = h)

IsNonDecreasing(seq) ==
    \A i \in 1..Len(seq) : \A j \in i..Len(seq) : seq[i] <= seq[j]

\* C1 (amended): in a timestamp-ordered stream, Sample records with the
\* same timestamp for one thread entity (the same thread handle: no Exit
\* retired the tid between them) leave one stored real sample: no store
\* holds two real samples of one thread handle with one timestamp.
DuplicateSuppressionPerThreadEntity ==
    handled > 0 =>
        \A ph \in 1..Len(converter.processes) :
            LET store == converter.processes[ph].unresolved_samples
            IN  \A i \in 1..Len(store) : \A j \in (i + 1)..Len(store) :
                    (/\ IsRealSample(store[i])
                     /\ IsRealSample(store[j])
                     /\ store[i].thread = store[j].thread)
                    => store[i].timestamp_mono # store[j].timestamp_mono

\* C1 as stated: no store holds two real samples with one (tid, timestamp),
\* whatever records lie between the two Sample records.
DuplicateSuppression ==
    handled > 0 =>
        \A ph \in 1..Len(converter.processes) :
            LET store == converter.processes[ph].unresolved_samples
            IN  \A i \in 1..Len(store) : \A j \in (i + 1)..Len(store) :
                    (/\ IsRealSample(store[i])
                     /\ IsRealSample(store[j])
                     /\ converter.threads[store[i].thread].tid =
                            converter.threads[store[j].thread].tid)
                    => store[i].timestamp_mono # store[j].timestamp_mono

\* A duplicate Sample was the last record: the thread still holds the stack
\* a SchedSwitch saved after the first Sample (a Sample that is taken clears
\* it), and the store holds the one real sample of that timestamp.
DuplicateSuppressionWitness ==
    /\ handled > 0
    /\ ~aborted
    /\ last_record.kind = "Sample"
    /\ LET h == LiveThread(converter, last_record.pid, last_record.tid)
           store == StoreOf(converter, last_record.pid)
       IN  /\ h # 0
           /\ converter.threads[h].off_cpu_stack.some
           /\ converter.threads[h].last_sample_timestamp = last_record.timestamp
           /\ Len(SelectSeq(SamplesOfThread(store, h), IsRealSample)) = 1

Appended(pid) ==
    SubSeq(StoreOf(converter', pid), Len(StoreOf(converter, pid)) + 1,
           Len(StoreOf(converter', pid)))

\* The step handled a ContextSwitch-In.
StepIsSwitchIn ==
    /\ ~aborted'
    /\ IF last_record'.kind = "ContextSwitch" THEN last_record'.switch = "In" ELSE FALSE

\* The step handled a Sample that is no duplicate.
StepIsTakenSample ==
    /\ ~aborted'
    /\ last_record'.kind = "Sample"
    /\ LET h == LiveThread(converter, last_record'.pid, last_record'.tid)
       IN  IF h = 0 THEN TRUE
           ELSE converter.threads[h].last_sample_timestamp # last_record'.timestamp

\* The saved off-CPU stack of the record's thread before the step.
SavedBefore ==
    LET h == LiveThread(converter, last_record'.pid, last_record'.tid)
    IN  IF h = 0 THEN None ELSE converter.threads[h].off_cpu_stack

\* C9: after a ContextSwitch-In or a Sample that is no duplicate, the
\* thread holds no saved off-CPU stack, whether or not an off-CPU group was
\* emitted; the off-CPU samples of the step carry the stack that was saved
\* before it, so one saved stack serves at most one group.
SavedStackSingleUse ==
    [][(StepIsSwitchIn \/ StepIsTakenSample) =>
          LET e == last_record'
              h == LiveThread(converter', e.pid, e.tid)
              off == SelectSeq(Appended(e.pid), IsOffCpuSample)
          IN  /\ ~converter'.threads[h].off_cpu_stack.some
              /\ off # <<>> =>
                    /\ SavedBefore.some
                    /\ \A i \in 1..Len(off) : off[i].stack = SavedBefore.v]_vars

\* A switch-in has just used the saved stack for a group and the thread
\* holds none.
SavedStackSingleUseWitness ==
    /\ handled > 0
    /\ ~aborted
    /\ last_record.kind = "ContextSwitch"
    /\ LET h == LiveThread(converter, last_record.pid, last_record.tid)
           store == StoreOf(converter, last_record.pid)
       IN  /\ h # 0
           /\ ~converter.threads[h].off_cpu_stack.some
           /\ converter.threads[h].context_switch_data.last_switch_in = last_record.timestamp
           /\ Len(store) > 0
           /\ IsOffCpuSample(store[Len(store)])

\* The step handled a ContextSwitch-In for a thread switched out at least
\* one off-CPU interval earlier, with context switches available and
\* event-based sampling.
StepIsSwitchInAfterOffCpu ==
    /\ StepIsSwitchIn
    /\ config.have_context_switches
    /\ config.sampling_is_time_based = NoneT
    /\ LET h == LiveThread(converter, last_record'.pid, last_record'.tid)
       IN  IF h = 0 THEN FALSE
           ELSE LET t1 == converter.threads[h].context_switch_data.last_switch_out
                IN  /\ t1 # NoneT
                    /\ last_record'.timestamp - t1 >= DEFAULT_OFF_CPU_SAMPLING_INTERVAL_NS

\* C10 (amended): such a switch-in at t2 of a thread switched out at t1
\* appends nothing when the thread holds no saved off-CPU stack (no
\* SchedSwitch came before); with a saved stack it appends one sample at t1
\* with weight 0 and the accumulated cpu delta and, only when more than one
\* interval has passed, a second one at t2 with weight 0 and cpu delta 0.
SwitchInOffCpuSamples ==
    [][StepIsSwitchInAfterOffCpu =>
          LET e == last_record'
              h == LiveThread(converter, e.pid, e.tid)
              data == converter.threads[h].context_switch_data
              t1 == data.last_switch_out
              t2 == e.timestamp
              count == (t2 - t1) \div DEFAULT_OFF_CPU_SAMPLING_INTERVAL_NS
              first == Sample(h, t1 - FirstSampleTime, t1, SavedBefore.v,
                              data.on_cpu_ns, 0)
              rest == Sample(h, t2 - FirstSampleTime, t1, SavedBefore.v, 0, 0)
          IN  Appended(e.pid) =
                  IF ~SavedBefore.some THEN <<>>
                  ELSE IF count > 1 THEN <<first, rest>>
                  ELSE <<first>>]_vars

\* C10 as stated: in a stream without SchedSwitch records (the thread
\* holds no saved stack) the switch-in appends one sample at t1 with weight
\* 0 and one at t2 with weight 0 and cpu delta 0.
SwitchInAppendsOffCpuSamples ==
    [][(StepIsSwitchInAfterOffCpu /\ ~SavedBefore.some) =>
          LET e == last_record'
              h == LiveThread(converter, e.pid, e.tid)
              t1 == converter.threads[h].context_switch_data.last_switch_out
              off == Appended(e.pid)
          IN  /\ Len(off) = 2
              /\ off[1].timestamp_mono = t1
              /\ off[1].weight = 0
              /\ off[2].timestamp = e.timestamp - FirstSampleTime
              /\ off[2].weight = 0
              /\ off[2].cpu_delta = 0]_vars

\* A switch-in two intervals after the switch-out has appended both
\* samples of the group, with event-based sampling.
SwitchInOffCpuSamplesWitness ==
    /\ handled > 0
    /\ ~aborted
    /\ config.have_context_switches
    /\ config.sampling_is_time_based = NoneT
    /\ last_record.kind = "ContextSwitch"
    /\ LET store == StoreOf(converter, last_record.pid)
           n == Len(store)
       IN  /\ n >= 2
           /\ IsOffCpuSample(store[n - 1])
           /\ IsOffCpuSample(store[n])
           /\ store[n].timestamp = last_record.timestamp - FirstSampleTime
           /\ store[n].timestamp_mono < last_record.timestamp
           /\ store[n].weight = 0

\* ---- process and thread lifecycle: fork, exit, rename, execve ----

InitLife ==
    InitCore({cfg \in Configs :
                 cfg.have_context_switches /\ cfg.sampling_is_time_based = NoneT}, {FALSE})

NextLife ==
    \/ \E d \in {0, Tick} : HandleSample(SampleRecord("Sample", 1, 2, clock + d))
    \/ \E pid \in Pids : HandleSample(SampleRecord("Sample", pid, pid, clock + Tick))
    \/ \E d \in {0, Tick} :
          HandleThreadStart(ForkOrExitRecord("Fork", 1, 1, 2, 1, clock + d))
    \/ HandleThreadStart(ForkOrExitRecord("Fork", 2, 1, 2, 1, clock + Tick))
    \/ \E tid \in {1, 2} :
          HandleThreadEnd(ForkOrExitRecord("Exit", 1, 1, tid, tid, clock))
    \/ HandleThreadEnd(ForkOrExitRecord("Exit", 2, 2, 2, 2, clock))
    \/ \E tid \in {1, 2}, is_execve \in BOOLEAN :
          HandleThreadNameUpdate(CommOrExecRecord(1, tid, "a", is_execve, NoneT))
    \/ HandleThreadNameUpdate(CommOrExecRecord(1, 2, "a", TRUE, clock + Tick))
    \/ HandleThreadNameUpdate(CommOrExecRecord(1, 1, "a", TRUE, 0))

SpecLife == InitLife /\ [][NextLife]_vars

\* Every stored sample names a thread of the profile, and the start times
\* of the thread and of the process that owns the store are not later than
\* the sample.
StartTimesBeforeSamples ==
    handled > 0 =>
        \A ph \in 1..Len(converter.processes) :
            LET process == converter.processes[ph]
                store == process.unresolved_samples
            IN  \A i \in 1..Len(store) :
                    /\ store[i].thread \in 1..Len(converter.threads)
                    /\ converter.threads[store[i].thread].start_time <= store[i].timestamp
                    /\ process.start_time <= store[i].timestamp

\* The step handled a Fork whose child (the process pid when it differs
\* from ppid, else the thread tid) was already registered.
StepIsForkOfRegistered ==
    /\ last_record'.kind = "Fork"
    /\ IF last_record'.pid # last_record'.ppid
       THEN ProcessHandle(converter, last_record'.pid) # 0
       ELSE LiveThread(converter, last_record'.ppid, last_record'.tid) # 0

ErrPid == 1

NextErr ==
    \/ \E d \in {0, Tick} : HandleSample(SampleRecord("Sample", ErrPid, ErrPid, clock + d))
    \/ HandleSample(SampleRecord("Sample", NoneT, ErrPid, clock))
    \/ HandleSample(SampleRecord("Sample", ErrPid, NoneT, clock))
    \/ HandleSample(SampleRecord("Sample", ErrPid, ErrPid, NoneT))
    \/ \E pid \in {NoneT, ErrPid} :
          HandleSchedSwitch(SampleRecord("SchedSwitch", pid, ErrPid, clock))
    \/ \E switch \in {"In", "Out"}, d \in {0, Tick} :
          HandleContextSwitch(ContextSwitchRecord(switch, ErrPid, ErrPid, clock + d))
    \/ \E switch \in {"In", "Out"} :
          HandleContextSwitch(ContextSwitchRecord(switch, ErrPid, ErrPid, NoneT))
    \/ \E is_executable \in BOOLEAN, path_is_utf8 \in BOOLEAN :
          HandleMmap2(Mmap2Record(ErrPid, is_executable, path_is_utf8, clock))

InitErr ==
    InitCore({cfg \in Configs :
                 /\ cfg.have_context_switches
                 /\ cfg.sampling_is_time_based = NoneT
                 /\ ~cfg.merge_threads}, {FALSE})

SpecErr == InitErr /\ [][NextErr]_vars

\* C8 as stated: whatever record the dispatcher receives, the conversion
\* goes on: no handler ends it.
NoErrorPathAborts == ~aborted

\* ---- the CPU delta of real samples ----

DeltaPid == 1
DeltaTid == 2

\* A Sample record with the period (NoneT or nanoseconds) of an event that
\* is clock-like or not.
SampleRecordOfEvent(pid, tid, timestamp, period, clock_like) ==
    [SampleRecord("Sample", pid, tid, timestamp) EXCEPT
        !.period = period, !.clock_like = clock_like]

InitDelta ==
    InitCore({cfg \in Configs :
                 cfg.sampling_is_time_based = NoneT /\ ~cfg.merge_threads}, {FALSE})

NextDelta ==
    \/ \E d \in {0, Tick}, period \in {NoneT, Tick}, clock_like \in BOOLEAN :
          HandleSample(SampleRecordOfEvent(DeltaPid, DeltaTid, clock + d,
                                           period, clock_like))
    \/ \E switch \in {"In", "Out"} :
          HandleContextSwitch(ContextSwitchRecord(switch, DeltaPid, DeltaTid,
                                                  clock + Tick))

SpecDelta == InitDelta /\ [][NextDelta]_vars

\* The tracker's state of the record's thread before the step.
TrackerBefore ==
    LET h == LiveThread(converter, last_record'.pid, last_record'.tid)
    IN  IF h = 0 THEN NewContextSwitchData
        ELSE converter.threads[h].context_switch_data

\* The running time the tracker has accumulated for the record's thread
\* up to the record.
RunningTimeSinceLastSample ==
    TrackerBefore.on_cpu_ns +
    (IF TrackerBefore.last_switch_out = NoneT /\ TrackerBefore.last_switch_in # NoneT
     THEN last_record'.timestamp - TrackerBefore.last_switch_in
     ELSE 0)

\* C11 as stated: the CPU delta of the real sample a Sample record stores
\* is the tracker's running time when context switches are available; else
\* the record's period when it carries one and the event is clock-like;
\* else zero.
CpuDeltaOfRealSample ==
    [][StepIsTakenSample =>
          LET e == last_record'
              store == StoreOf(converter', e.pid)
              sample == store[Len(store)]
          IN  sample.cpu_delta =
                  IF config.have_context_switches
                  THEN RunningTimeSinceLastSample
                  ELSE IF e.period # NoneT /\ e.clock_like THEN e.period
                  ELSE 0]_vars

\* ---- on-CPU time through the sample stores (SpecCpu) ----

RECURSIVE SumCpuDelta(_)
SumCpuDelta(samples) ==
    IF samples = <<>> THEN 0 ELSE Head(samples).cpu_delta + SumCpuDelta(Tail(samples))

\* The on-CPU time reported for thread handle h in c: the CPU deltas of its
\* stored samples, in whatever process.
ReportedCpuTime(c, h) ==
    LET per_process == [ph \in 1..Len(c.processes) |->
                           [cpu_delta |-> SumCpuDelta(SamplesOfThread(
                                              c.processes[ph].unresolved_samples, h))]]
    IN  SumCpuDelta(per_process)

\* The on-CPU time of thread handle h in c: what its samples report and
\* what its tracker holds for the next sample.
CpuTimeOf(c, h) ==
    IF h > Len(c.threads) THEN 0
    ELSE ReportedCpuTime(c, h) + c.threads[h].context_switch_data.on_cpu_ns

\* The running time the step's record adds to its thread's tracker: the
\* time since the thread's last switch-in, for a Sample that is taken and a
\* ContextSwitch of a thread that is on the CPU.
AccruedByStep ==
    IF /\ \/ StepIsTakenSample
          \/ last_record'.kind = "ContextSwitch"
       /\ TrackerBefore.last_switch_in # NoneT
    THEN last_record'.timestamp - TrackerBefore.last_switch_in
    ELSE 0

\* The step's Sample record appended the samples of an off-CPU group before
\* its own.
StepEmitsGroupWithSample ==
    /\ StepIsTakenSample
    /\ Len(StoreOf(converter', last_record'.pid)) >= Len(StoreOf(converter, last_record'.pid)) + 2

OnCpuTimeCarriedOverSwitchIn ==
    /\ handled = 3
    /\ ~aborted
    /\ config.have_context_switches
    /\ last_record.kind = "ContextSwitch"
    /\ last_record.switch = "In"
    /\ LET h == LiveThread(converter, last_record.pid, last_record.tid)
       IN  /\ converter.threads[h].context_switch_data.on_cpu_ns = Tick
           /\ converter.threads[h].context_switch_data.last_switch_in = 4 * Tick
           /\ ~converter.threads[h].off_cpu_stack.some
           /\ Len(StoreOf(converter, last_record.pid)) = 1

\* The step handled a Sample that is dropped as a duplicate.
StepIsDroppedSample ==
    /\ ~aborted'
    /\ handled' = handled + 1
    /\ last_record'.kind = "Sample"
    /\ ~StepIsTakenSample

\* C34: a Sample dropped as a duplicate leaves the accounting state as it
\* was: the process's sample store (and every other store), the thread's
\* saved off-CPU stack, its context-switch ledger and its
\* last_sample_timestamp; nothing but the converter's current sample time
\* is touched.
DroppedSampleChangesNothing ==
    [][StepIsDroppedSample =>
          LET e == last_record'
              h == LiveThread(converter, e.pid, e.tid)
          IN  /\ h # 0
              /\ LiveThread(converter', e.pid, e.tid) = h
              /\ StoreOf(converter', e.pid) = StoreOf(converter, e.pid)
              /\ converter'.threads[h].off_cpu_stack = converter.threads[h].off_cpu_stack
              /\ converter'.threads[h].context_switch_data =
                     converter.threads[h].context_switch_data
              /\ converter'.threads[h].last_sample_timestamp =
                     converter.threads[h].last_sample_timestamp
              /\ converter' = [converter EXCEPT !.current_sample_time = e.timestamp]]_vars

\* A Sample was dropped after a SchedSwitch and a switch-out at the time of
\* the thread's one stored sample: the saved stack and the switch-out time,
\* which a Sample that is taken clears, are still there.
DroppedSampleChangesNothingWitness ==
    /\ handled = 4
    /\ ~aborted
    /\ config.have_context_switches
    /\ last_record.kind = "Sample"
    /\ LET h == LiveThread(converter, last_record.pid, last_record.tid)
       IN  /\ converter.threads[h].last_sample_timestamp = last_record.timestamp
           /\ converter.threads[h].off_cpu_stack.some
           /\ converter.threads[h].context_switch_data.last_switch_out = last_record.timestamp
           /\ Len(StoreOf(converter, last_record.pid)) = 1

\* The elements of a sequence.
Range(seq) == {seq[i] : i \in 1..Len(seq)}

\* The ended threads the live process pid keeps for reuse in c.
EndedThreadsOf(c, pid) ==
    IF ProcessHandle(c, pid) = 0 THEN {}
    ELSE Range(c.processes[ProcessHandle(c, pid)].ended_threads)

\* C13: after a Fork record the child (process and main thread when pid #
\* ppid, the thread when pid = ppid) has the record's time as its start
\* time if and only if it was not taken from the entities kept for reuse;
\* a reused entity keeps the start time it had.
ForkStampsUnlessReused ==
    [][last_record'.kind = "Fork" =>
          LET e == last_record'
              start_time == e.timestamp - FirstSampleTime
              ph == ProcessHandle(converter', e.pid)
              h == ThreadOf(converter', e.pid, e.tid)
          IN  IF e.pid # e.ppid
              THEN IF ph \in Range(converter.ended_processes)
                   THEN /\ converter'.processes[ph].start_time =
                               converter.processes[ph].start_time
                        /\ converter'.threads[h].start_time =
                               converter.threads[h].start_time
                   ELSE /\ converter'.processes[ph].start_time = start_time
                        /\ converter'.threads[h].start_time = start_time
              ELSE IF h \in EndedThreadsOf(converter, e.ppid)
                   THEN converter'.threads[h].start_time =
                            converter.threads[h].start_time
                   ELSE converter'.threads[h].start_time = start_time]_vars

\* A Fork has just reused an ended entity: the child is live again and its
\* start time is earlier than the Fork.
ForkStampsUnlessReusedWitness ==
    /\ handled > 0
    /\ last_record.kind = "Fork"
    /\ LET h == LiveThread(converter, last_record.pid, last_record.tid)
       IN  /\ h # 0
           /\ converter.threads[h].end_time = NoneT
           /\ converter.threads[h].name = "a"
           /\ converter.threads[h].start_time < last_record.timestamp - FirstSampleTime

\* The handles of the threads process handle ph holds in c.
ThreadsOfProcess(c, ph) ==
    {c.processes[ph].main_thread} \cup
    ({c.processes[ph].threads_by_tid[t] : t \in Tids} \ {0})

\* C14: an Exit record with tid = pid retires the whole process: the pid is
\* no longer registered and the process and its threads end at the record's
\* time.  An Exit record with tid # pid retires only that thread: the
\* process stays registered with its main thread and its other threads,
\* every other process stays as it was, the thread ends at the record's
\* time, and it is kept for reuse iff thread-merging is enabled.
ExitRouting ==
    [][last_record'.kind = "Exit" =>
          LET e == last_record'
              end_time == e.timestamp - FirstSampleTime
              ph == ProcessHandle(converter, e.pid)
              h == LiveThread(converter, e.pid, e.tid)
          IN  IF e.tid = e.pid
              THEN /\ ProcessHandle(converter', e.pid) = 0
                   /\ ph # 0 =>
                         /\ converter'.processes[ph].end_time = end_time
                         /\ \A t \in ThreadsOfProcess(converter, ph) :
                               converter'.threads[t].end_time = end_time
              ELSE /\ ProcessHandle(converter', e.pid) # 0
                   /\ LiveThread(converter', e.pid, e.tid) = 0
                   /\ \A p \in Pids \ {e.pid} :
                         ProcessHandle(converter', p) = ProcessHandle(converter, p)
                   /\ ph # 0 =>
                         /\ ProcessHandle(converter', e.pid) = ph
                         /\ converter'.processes[ph].end_time = NoneT
                         /\ ThreadsOfProcess(converter', ph) =
                                ThreadsOfProcess(converter, ph) \ {h}
                         /\ \A t \in ThreadsOfProcess(converter', ph) :
                               converter'.threads[t] = converter.threads[t]
                   /\ h # 0 =>
                         /\ converter'.threads[h].end_time = end_time
                         /\ (h \in EndedThreadsOf(converter', e.pid))
                                <=> config.merge_threads]_vars

\* A non-main thread that had a sample has just exited with thread-merging
\* enabled: it is kept for reuse and its process is still registered.
ExitRoutingWitness ==
    /\ handled > 0
    /\ last_record.kind = "Exit"
    /\ last_record.tid # last_record.pid
    /\ config.merge_threads
    /\ ProcessHandle(converter, last_record.pid) # 0
    /\ \E h \in EndedThreadsOf(converter, last_record.pid) :
          /\ converter.threads[h].end_time = last_record.timestamp - FirstSampleTime
          /\ converter.threads[h].last_sample_timestamp # NoneT

\* The step handled an execve of a main thread whose record has no
\* timestamp (absent or zero).
StepIsExecveWithoutTimestamp ==
    /\ last_record'.kind = "Comm"
    /\ last_record'.is_execve
    /\ last_record'.pid = last_record'.tid
    /\ (last_record'.timestamp = NoneT \/ last_record'.timestamp = 0)

\* C15: such an execve retires the old process at the last seen Sample
\* timestamp, the pid is then bound to an ended process of the new name or,
\* when there is none, to a new process whose start time and whose main
\* thread's start time are that same timestamp; a reused process keeps its
\* start time.
ExecveFallbackTimestamp ==
    [][StepIsExecveWithoutTimestamp =>
          LET e == last_record'
              fallback == converter.current_sample_time - FirstSampleTime
              old == ProcessHandle(converter, e.pid)
              new == ProcessHandle(converter', e.pid)
              main == converter'.processes[new].main_thread
          IN  /\ new # 0
              /\ converter'.processes[new].name = e.name
              /\ converter'.threads[main].name = e.name
              /\ (old # 0 /\ new # old) =>
                    /\ converter'.processes[old].end_time = fallback
                    /\ \A t \in ThreadsOfProcess(converter, old) :
                          converter'.threads[t].end_time = fallback
              /\ IF new > Len(converter.processes)
                 THEN /\ converter'.processes[new].start_time = fallback
                      /\ converter'.threads[main].start_time = fallback
                 ELSE /\ converter.processes[new].name = e.name
                      /\ new \in Range(converter.ended_processes) \cup {old}
                      /\ converter'.processes[new].start_time =
                             converter.processes[new].start_time
                      /\ converter'.threads[main].start_time =
                             converter.threads[main].start_time]_vars

\* An execve without a timestamp came after a later Sample: the old process
\* ended and the new one started at that Sample's time.
ExecveFallbackTimestampWitness ==
    /\ handled > 0
    /\ last_record.kind = "Comm"
    /\ last_record.is_execve
    /\ last_record.pid = last_record.tid
    /\ converter.current_sample_time > FirstSampleTime
    /\ LET new == ProcessHandle(converter, last_record.pid)
       IN  /\ new # 0
           /\ converter.processes[new].start_time =
                  converter.current_sample_time - FirstSampleTime
           /\ \E old \in 1..Len(converter.processes) :
                 /\ old # new
                 /\ converter.processes[old].pid = last_record.pid
                 /\ converter.processes[old].end_time =
                        converter.current_sample_time - FirstSampleTime

\* ---- thread names and the deferred product name ----

NamePid == 1

InitName ==
    InitCore({cfg \in Configs :
                 /\ cfg.have_context_switches
                 /\ cfg.sampling_is_time_based = NoneT
                 /\ ~cfg.merge_threads}, BOOLEAN)

NextName ==
    \E tid \in {1, 2}, name \in {"perf-exec", "a", "b"}, is_execve \in BOOLEAN :
        HandleThreadNameUpdate(CommOrExecRecord(NamePid, tid, name, is_execve, NoneT))

SpecName == InitName /\ [][NextName]_vars

\* C16: the deferred product-name generator is invoked at most once: by
\* the first thread-name update whose name is not "perf-exec", with that
\* name, and the product name is what it returned from then on.  A name
\* update finds it pending only when no call was made; "perf-exec" leaves it
\* pending, and once it has run (or when none was given) a name update
\* changes neither the product name nor the calls.
DeferredProductNameOnce ==
    /\ [](handled >= 0 =>
            /\ Len(converter.generator_calls) <= 1
            /\ converter.delayed_product_name_generator
                  => /\ converter.generator_calls = <<>>
                     /\ converter.product = <<"product">>
            /\ converter.generator_calls # <<>>
                  => converter.product = generated_product(converter.generator_calls[1]))
    /\ [][last_record'.kind = "Comm" =>
             IF converter.delayed_product_name_generator
                /\ last_record'.name # "perf-exec"
             THEN /\ converter'.generator_calls = <<last_record'.name>>
                  /\ ~converter'.delayed_product_name_generator
                  /\ converter'.have_product_name
             ELSE /\ converter'.generator_calls = converter.generator_calls
                  /\ converter'.product = converter.product
                  /\ converter'.delayed_product_name_generator =
                         converter.delayed_product_name_generator]_vars

\* A thread was named "perf-exec", the generator ran for "a", and a later
\* update to "b" left the product name of "a".
DeferredProductNameOnceWitness ==
    /\ handled >= 3
    /\ last_record.name = "b"
    /\ converter.generator_calls = <<"a">>
    /\ converter.product = generated_product("a")
    /\ \E h \in 1..Len(converter.threads) : converter.threads[h].name = "perf-exec"

\* ------------------------------------------- stacks through the dispatcher

SchedPid == 1
SchedTid == 2

\* A sample-shaped record with the callchain and the unwinder's outcome of
\* `shape`, taken in user mode.
StackRecord(kind, pid, tid, timestamp, shape) ==
    [SampleRecord(kind, pid, tid, timestamp) EXCEPT
        !.callchain = shape.callchain, !.dwarf = shape.dwarf, !.cpu_mode = "User"]

\* Kernel frames from the callchain and user frames from the unwinder, with
\* and without an unwinder error.
KernelAndUnwoundError ==
    [callchain |-> Some(<<PERF_CONTEXT_KERNEL, 2>>),
     dwarf |-> Some([frames |-> <<1>>, err |-> TRUE])]
UnwoundErrorAtOnce ==
    [callchain |-> None, dwarf |-> Some([frames |-> <<>>, err |-> TRUE])]
RecursionThenError ==
    [callchain |-> Some(<<1>>), dwarf |-> Some([frames |-> <<1, 1>>, err |-> TRUE])]
KernelAndUnwound ==
    [callchain |-> Some(<<PERF_CONTEXT_KERNEL, 2>>),
     dwarf |-> Some([frames |-> <<1, 2>>, err |-> FALSE])]

SampleShapes == {KernelAndUnwoundError, UnwoundErrorAtOnce, RecursionThenError, KernelAndUnwound}
SchedSwitchShapes == {KernelAndUnwoundError, KernelAndUnwound}

InitSched ==
    InitCore([sampling_is_time_based : {NoneT},
              have_context_switches : BOOLEAN,
              merge_threads : {FALSE},
              fold_recursive_prefix : BOOLEAN], {FALSE})

NextSched ==
    \/ \E shape \in SampleShapes :
          HandleSample(StackRecord("Sample", SchedPid, SchedTid, clock + Tick, shape))
    \/ \E shape \in SchedSwitchShapes :
          HandleSchedSwitch(StackRecord("SchedSwitch", SchedPid, SchedTid, clock + Tick, shape))
    \/ \E switch \in {"In", "Out"} :
          HandleContextSwitch(ContextSwitchRecord(switch, SchedPid, SchedTid, clock + Tick))

SpecSched == InitSched /\ [][NextSched]_vars

\* The frames to expect from the callchain of record e, and from the
\* unwinder's frames before it stopped.
CallchainFramesOf(e) ==
    IF e.callchain.some
    THEN [k \in 1..Len(CallchainFrameIndices(e.callchain.v)) |-> CallchainFrame(e, k)]
    ELSE <<>>

UnwinderFramesOf(e) ==
    [i \in 1..Len(e.dwarf.v.frames) |->
        [kind |-> IF i = 1 THEN "ip" ELSE "ra",
         addr |-> e.dwarf.v.frames[i],
         mode |-> "User"]]

\* The step handled a Sample, no duplicate, whose unwinding ended in an error.
StepIsSampleWithUnwindError ==
    /\ StepIsTakenSample
    /\ last_record'.dwarf.some
    /\ last_record'.dwarf.v.err

\* C22: when the unwinder returns an error, the sample is stored all the
\* same, and its stack is the callchain's frames, then the frames the
\* unwinder produced before the error, then one truncated-stack marker:
\* the marker is the caller-most frame, it occurs once, and no unwinder
\* frame follows it.
UnwindErrorTruncation ==
    [][StepIsSampleWithUnwindError =>
          LET e == last_record'
              appended == Appended(e.pid)
              stack == appended[Len(appended)].stack
              truncated == CallchainFramesOf(e) \o UnwinderFramesOf(e)
          IN  /\ Len(appended) >= 1
              /\ appended[Len(appended)].timestamp_mono = e.timestamp
              /\ stack = Reverse(truncated \o <<TruncatedStackMarker>>)
              /\ stack[1] = TruncatedStackMarker
              /\ \A i \in 2..Len(stack) : stack[i] # TruncatedStackMarker]_vars

\* A stored sample of a kernel frame, one unwound frame and the marker.
UnwindErrorTruncationWitness ==
    /\ handled > 0
    /\ ~aborted
    /\ last_record.kind = "Sample"
    /\ last_record.dwarf = KernelAndUnwoundError.dwarf
    /\ LET store == StoreOf(converter, last_record.pid)
       IN  /\ Len(store) >= 1
           /\ store[Len(store)].timestamp_mono = last_record.timestamp
           /\ Len(store[Len(store)].stack) = 3
           /\ store[Len(store)].stack[1] = TruncatedStackMarker
           /\ store[Len(store)].stack[2].mode = "User"
           /\ store[Len(store)].stack[3].mode = "Kernel"

\* The buffer of get_sample_stack before the fold: the callchain's frames,
\* the unwinder's, the marker of an unwinder error.
AssembledFrames(e) ==
    CallchainFramesOf(e)
    \o (IF e.dwarf.some
        THEN UnwinderFramesOf(e)
             \o (IF e.dwarf.v.err THEN <<TruncatedStackMarker>> ELSE <<>>)
        ELSE <<>>)

\* C23: with the switch set and a non-empty buffer the result is the buffer
\* without the end of its last run of equal frames: every frame dropped
\* equals the last frame, the last two frames left differ (or one frame is
\* left), the frames before are unchanged, and a second fold changes
\* nothing; with the switch unset the result is the whole buffer.
FoldRecursivePrefix ==
    (st_pc = "done" /\ AssembledFrames(st_in.e) # <<>>) =>
        LET buffer == AssembledFrames(st_in.e)
            n == Len(st_out)
        IN  IF st_in.fold
            THEN /\ n >= 1
                 /\ n <= Len(buffer)
                 /\ st_out = SubSeq(buffer, 1, n)
                 /\ \A i \in n..Len(buffer) : buffer[i] = buffer[Len(buffer)]
                 /\ n >= 2 => st_out[n - 1] # st_out[n]
                 /\ fold_recursive_prefix(st_out) = st_out
            ELSE st_out = buffer

\* A recursion at the base of the stack was collapsed under other frames.
FoldRecursivePrefixWitness ==
    /\ st_pc = "done"
    /\ st_in.fold
    /\ Len(st_out) = 2
    /\ Len(AssembledFrames(st_in.e)) = 3
    /\ st_out[1] # st_out[2]

\* The step handled a SchedSwitch record.
StepIsSchedSwitch == ~aborted' /\ last_record'.kind = "SchedSwitch"

\* The thread of the step's record before the step: a new thread's fields
\* when the record is the first to name it.
ThreadBefore ==
    LET h == LiveThread(converter, last_record'.pid, last_record'.tid)
    IN  IF h = 0 THEN NewThread(last_record'.tid) ELSE converter.threads[h]

\* The user-only stack of record e, caller-most frame first.
UserOnlyStack(e) ==
    LET buffer == IF config.fold_recursive_prefix
                  THEN fold_recursive_prefix(AssembledFrames(e))
                  ELSE AssembledFrames(e)
    IN  Reverse(SelectSeq(buffer, LAMBDA frame : frame.mode # "Kernel"))

\* C24: a SchedSwitch record saves the record's user-only stack as the
\* thread's off-CPU stack, whatever was saved before; it appends no sample
\* and leaves the thread's last_sample_timestamp, the converter's
\* current_sample_time and the thread's context-switch ledger as they were.
SchedSwitchSavesUserStack ==
    [][StepIsSchedSwitch =>
          LET e == last_record'
              h == LiveThread(converter', e.pid, e.tid)
              thread == converter'.threads[h]
          IN  /\ h # 0
              /\ thread.off_cpu_stack = Some(UserOnlyStack(e))
              /\ \A i \in 1..Len(UserOnlyStack(e)) : UserOnlyStack(e)[i].mode # "Kernel"
              /\ Appended(e.pid) = <<>>
              /\ thread.last_sample_timestamp = ThreadBefore.last_sample_timestamp
              /\ thread.context_switch_data = ThreadBefore.context_switch_data
              /\ converter'.current_sample_time = converter.current_sample_time]_vars

\* A SchedSwitch after a stored sample and a switch-out: the thread holds
\* the marker and the unwound user frame, and no kernel frame.
SchedSwitchSavesUserStackWitness ==
    /\ handled >= 3
    /\ ~aborted
    /\ last_record.kind = "SchedSwitch"
    /\ last_record.dwarf = KernelAndUnwoundError.dwarf
    /\ LET thread == converter.threads[LiveThread(converter, SchedPid, SchedTid)]
       IN  /\ thread.off_cpu_stack.some
           /\ Len(thread.off_cpu_stack.v) = 2
           /\ thread.off_cpu_stack.v[1] = TruncatedStackMarker
           /\ thread.off_cpu_stack.v[2].mode = "User"
           /\ thread.last_sample_timestamp # NoneT
           /\ thread.context_switch_data.last_switch_out # NoneT
           /\ converter.current_sample_time < last_record.timestamp

\* ---- RssStat records through the dispatcher ----

\* RssStat records handled per run.
MaxMarkerRecords == 2

\* An RssStat record: a sample-shaped record whose raw payload parses to
\* rss_stat (None when there is no payload or it does not parse).
RssStatRecord(pid, timestamp, shape, rss_stat) ==
    [kind |-> "RssStat", pid |-> pid, tid |-> pid, timestamp |-> timestamp,
     callchain |-> shape.callchain, dwarf |-> shape.dwarf, ip |-> 2,
     cpu_mode |-> "User", rss_stat |-> rss_stat]

\* The payloads drawn: none, the four members and a member the converter
\* does not know, each of size 1.
MarkerPayloads ==
    {None} \cup {Some([member |-> m, size |-> 1]) : m \in RssMembers \cup {4}}

\* Converter::handle_rss_stat on record e of the stream.
HandleRssStatRecord(e) ==
    IF e.pid = NoneT
    THEN Panicked(e)
    ELSE /\ ~aborted
         /\ handled < MaxRecords
         /\ handled < MaxMarkerRecords
         /\ converter' = get_by_pid(converter, e.pid)
         /\ clock' = RecordTime(e)
         /\ handled' = handled + 1
         /\ last_record' = e
         /\ handle_rss_stat(e.pid, e.rss_stat, e.timestamp,
                            rss_stat_stack(e, config.fold_recursive_prefix))
         /\ UNCHANGED <<varsHelper, config, aborted, varsOff, varsStack, varsPe, varsLoad>>

InitMarker ==
    InitCore([sampling_is_time_based : {NoneT},
              have_context_switches : {FALSE},
              merge_threads : {FALSE},
              fold_recursive_prefix : {FALSE}], {FALSE})

NextMarker ==
    \E pid \in RssPids, rss_stat \in MarkerPayloads, ts \in {NoneT, clock + Tick},
       shape \in SchedSwitchShapes :
        HandleRssStatRecord(RssStatRecord(pid, ts, shape, rss_stat))

SpecMarker == InitMarker /\ [][NextMarker]_vars

\* The step handled an RssStat record.
StepIsRssStat ==
    /\ handled' = handled + 1
    /\ last_record'.kind = "RssStat"

\* The step appended exactly one marker to process pid and none elsewhere.
OneMarkerAppended(pid) ==
    /\ Len(rss_markers'[pid]) = Len(rss_markers[pid]) + 1
    /\ SubSeq(rss_markers'[pid], 1, Len(rss_markers[pid])) = rss_markers[pid]
    /\ \A p \in RssPids \ {pid} : rss_markers'[p] = rss_markers[p]

U32Top == MaxPeSize + 1

\* What object::File::parse reads from a file's bytes.  `format` is
\* "Unknown" when the bytes do not parse.  A segment and the .text section
\* have an address and a file range; `base_svma` is what
\* relative_address_base returns.
Segment(address, offset, size) == [address |-> address, offset |-> offset, size |-> size]

Object(format, segments, text, base_svma, build_id, debug_id, size_of_image) ==
    [format |-> format, segments |-> segments, text |-> text,
     base_svma |-> base_svma, build_id |-> build_id, debug_id |-> debug_id,
     size_of_image |-> size_of_image]

\* Stands for "no file" in an outcome.
NoObject == Object("Unknown", <<>>, None, 0, None, None, NoneT)

\* std::fs::write: the file at `path` now holds `obj`.
fs_write(fs, path, obj) ==
    {f \in fs : f.path # path} \cup {[path |-> path, obj |-> obj]}

\* open_file_with_fallback, with no extra binary artifact directory: the
\* file at `path`, if there is one.
open_file_with_fallback(fs, path) ==
    LET found == {f \in fs : f.path = path}
    IN  IF found = {} THEN None ELSE Some(CHOOSE f \in found : TRUE)

\* Mutant: the detection by the path and the format alone.
is_bad_perf_jit_so_file_by_name(obj, path) ==
    /\ str_contains(path, "/jitted-")
    /\ str_ends_with(path, ".so")
    /\ obj.format = "Elf"

\* correct_bad_perf_jit_so_file, up to "we have one of the broken files".
\* Only the first segment is looked at (segments().next()); a .text section
\* without a file range has offset NoneT.
is_bad_perf_jit_so_file(obj, path) ==
    /\ str_contains(path, "/jitted-")
    /\ str_ends_with(path, ".so")
    /\ obj.format = "Elf"
    /\ obj.segments # <<>>
    /\ obj.segments[1].address = 0
    /\ obj.segments[1].offset = 0
    /\ obj.text.some
    /\ obj.text.v.offset # NoneT
    /\ obj.text.v.offset # obj.text.v.address

\* object_rewriter::drop_phdr: the same ELF with the program header dropped,
\* which moves the sections up: .text is at the file offset of its address.
drop_phdr(obj) ==
    [obj EXCEPT !.segments = <<>>,
                !.text = IF obj.text.some
                         THEN Some([address |-> obj.text.v.address,
                                    offset |-> obj.text.v.address])
                         ELSE None]

\* The path of the fixed file.
fixed_path_of(path) == strip_suffix(path, ".so") \o "-fixed.so"

\* correct_bad_perf_jit_so_file: the fixed file and its path, or None.  The
\* caller writes the fixed file to the file system.
correct_bad_perf_jit_so_file(obj, path) ==
    IF is_bad_perf_jit_so_file(obj, path)
    THEN Some([path |-> fixed_path_of(path), obj |-> drop_phdr(obj)])
    ELSE None

\* compute_vma_bias: the difference between the mapping's start AVMA and the
\* SVMA of the byte at the mapping's file offset, found in the first segment
\* (the .text section, for a file without segments) whose file range holds
\* that offset; None when there is none.
compute_vma_bias(obj, mapping_start_file_offset, mapping_start_avma, mapping_size) ==
    LET ranges == IF obj.segments # <<>>
                  THEN obj.segments
                  ELSE IF obj.text.some
                       THEN <<Segment(obj.text.v.address, obj.text.v.offset, AddrTop)>>
                       ELSE <<>>
        covering == SelectSeq(ranges,
                        LAMBDA sg : /\ sg.offset <= mapping_start_file_offset
                                    /\ mapping_start_file_offset < sg.offset + sg.size)
    IN  IF covering = <<>>
        THEN None
        ELSE Some((mapping_start_avma
                   - (covering[1].address + mapping_start_file_offset - covering[1].offset))
                  % AddrTop)

\* Mutant: the base address from the bias, whatever the correlator found.
base_avma_from_bias(suspected_pe_mapping, base_svma, bias) ==
    IF bias.some THEN Some((base_svma + bias.v) % AddrTop) ELSE None

\* add_module_to_process: `let base_avma = ...`, None for the early return.
base_avma_of(suspected_pe_mapping, base_svma, bias) ==
    IF suspected_pe_mapping.some
    THEN Some(suspected_pe_mapping.v.start)
    ELSE IF bias.some
         THEN Some((base_svma + bias.v) % AddrTop)
         ELSE None

\* Mutant: a file without a build id passes the verification.
build_id_verified_unless_different(build_id, obj) ==
    (build_id.some /\ obj.build_id.some) => obj.build_id = build_id

\* add_module_to_process: "Verify build ID".
build_id_verified(build_id, obj) == build_id.some => obj.build_id = build_id

\* DebugId::from_identifier and CodeId::from_binary of a build id, and
\* DebugId::default.
debug_id_from_identifier(id) == <<"debug id of", id>>
code_id_from_binary(id) == <<"code id of", id>>
DefaultDebugId == <<"nil debug id">>

\* LibraryInfo as given to Profile::add_lib.
LibraryInfo(path, debug_id, code_id) ==
    [path |-> path, debug_id |-> debug_id, code_id |-> code_id]

\* A lib mapping of the process: add_regular_lib_mapping or
\* add_lib_mapping_for_injected_jit_lib.
LibMapping(start_avma, end_avma, relative_address_at_start, jitted) ==
    [start_avma |-> start_avma, end_avma |-> end_avma,
     relative_address_at_start |-> relative_address_at_start, jitted |-> jitted]

\* Mutant: the guessed base address is the start of the mapping.
guessed_base_avma_at_start(mapping_start_avma, mapping_start_file_offset, overflow_checks) ==
    Some(mapping_start_avma)

\* let base_avma = mapping_start_avma - mapping_start_file_offset; on u64.
\* A build with overflow checks panics (None) when the offset is above
\* the start, one without wraps.
guessed_base_avma(mapping_start_avma, mapping_start_file_offset, overflow_checks) ==
    IF mapping_start_file_offset <= mapping_start_avma
    THEN Some(mapping_start_avma - mapping_start_file_offset)
    ELSE IF overflow_checks
         THEN None
         ELSE Some((mapping_start_avma - mapping_start_file_offset) % AddrTop)

\* Converter::add_module_to_process: the file system it leaves and what it
\* registered.  `kind` is "module" (unwinder module and library mapping),
\* "unwinder_only" (the return for a missing debug id), "guessed" (no
\* file), "returned" (one of the early returns) or "panicked" (the
\* subtraction of the guess overflowed).  unwinder_module tells whether
\* process.unwinder.add_module was called, lib is the library given to
\* add_lib and lib_mapping is the mapping added to the process.
add_module_to_process(fs, pe_mappings, path_slice, mapping_start_file_offset, mapping_start_avma, mapping_size, build_id, overflow_checks) ==
    LET own == open_file_with_fallback(fs, path_slice)
        suspected_pe_mapping ==
            IF own.some
            THEN None
            ELSE find_suspected_pe_mapping(pe_mappings, mapping_start_avma, mapping_size)
        pe_file ==
            IF suspected_pe_mapping.some
            THEN open_file_with_fallback(fs, suspected_pe_mapping.v.path)
            ELSE None
        file == IF own.some THEN own ELSE pe_file
        fixed ==
            IF file.some
            THEN correct_bad_perf_jit_so_file(file.v.obj, file.v.path)
            ELSE None
        path == IF fixed.some THEN fixed.v.path
                ELSE IF file.some THEN file.v.path ELSE path_slice
        obj == IF fixed.some THEN fixed.v.obj
               ELSE IF file.some THEN file.v.obj ELSE NoObject
        bias == compute_vma_bias(obj, mapping_start_file_offset,
                                 mapping_start_avma, mapping_size)
        base_avma == base_avma_of(suspected_pe_mapping, obj.base_svma, bias)
        guess == guessed_base_avma(mapping_start_avma, mapping_start_file_offset,
                                   overflow_checks)
        outcome(kind, base, rel, unwinder_module, lib, lib_mapping) ==
            [requested |-> path_slice,
             build_id |-> build_id,
             unwinder_module |-> unwinder_module,
             lib |-> lib,
             lib_mapping |-> lib_mapping,
             mapping_start_file_offset |-> mapping_start_file_offset,
             mapping_start_avma |-> mapping_start_avma,
             mapping_size |-> mapping_size,
             own_file_opened |-> own.some,
             suspected_pe_mapping |-> suspected_pe_mapping,
             repaired |-> fixed.some,
             path |-> path, obj |-> obj,
             kind |-> kind, base_avma |-> base, relative_address_at_start |-> rel]
    IN  [files |-> IF fixed.some THEN fs_write(fs, fixed.v.path, fixed.v.obj) ELSE fs,
         outcome |->
            IF file.some
            THEN IF \/ obj.format = "Unknown"
                    \/ ~build_id_verified(build_id, obj)
                    \/ ~base_avma.some
                 THEN outcome("returned", NoneT, NoneT, FALSE, None, None)
                 ELSE IF obj.debug_id.some
                      THEN LET rel == ((mapping_start_avma - base_avma.v) % AddrTop) % U32Top
                           IN  outcome("module", base_avma.v, rel, TRUE,
                                       Some(LibraryInfo(
                                           path, obj.debug_id.v,
                                           IF obj.build_id.some
                                           THEN Some(code_id_from_binary(obj.build_id.v))
                                           ELSE None)),
                                       Some(LibMapping(
                                           mapping_start_avma,
                                           mapping_start_avma + mapping_size, rel,
                                           str_starts_with(file_name(path), "jitted-")
                                               /\ str_ends_with(file_name(path), ".so"))))
                      ELSE outcome("unwinder_only", base_avma.v, NoneT, TRUE, None, None)
            ELSE IF ~guess.some
                 THEN outcome("panicked", NoneT, NoneT, FALSE, None, None)
                 ELSE LET rel == ((mapping_start_avma - guess.v) % AddrTop) % U32Top
                      IN  outcome("guessed", guess.v, rel, FALSE,
                                  Some(LibraryInfo(
                                      path,
                                      IF build_id.some
                                      THEN debug_id_from_identifier(build_id.v)
                                      ELSE DefaultDebugId,
                                      IF build_id.some
                                      THEN Some(code_id_from_binary(build_id.v))
                                      ELSE None)),
                                  Some(LibMapping(mapping_start_avma,
                                                  mapping_start_avma + mapping_size,
                                                  rel, FALSE)))]

\* get_pe_mapping_size: the image size of the PE file at `path_slice`.
get_pe_mapping_size(fs, path_slice) ==
    LET file == open_file_with_fallback(fs, path_slice)
    IN  IF file.some /\ file.v.obj.format = "Pe"
        THEN file.v.obj.size_of_image
        ELSE NoneT

\* --------------------------------------------- the loader, on its own

\* Calls of add_module_to_process in a run.
MaxLoads == 2

JitPath == "/tmp/jitted-42-7.so"
ExePath == "game.exe"
DllPath == "lib.dll"
AnonPath == "//anon"
LoadPaths == {JitPath, fixed_path_of(JitPath), ExePath, AnonPath}
LoadStarts == {0, 1}
LoadSize == 2
\* The file offset of a mapping record: that of the code for a JIT file.
LoadOffset(path) == IF str_contains(path, "/jitted-") THEN 1 ELSE 0

\* The files `perf inject --jit` may have left at JitPath: ELF files with
\* and without a program header, with .text at its address or elsewhere,
\* a file of another format with the bad layout, and one that does not parse.
JitTexts == {None, Some([address |-> 1, offset |-> 2]), Some([address |-> 1, offset |-> 1])}
JitSegments == {<<>>, <<Segment(0, 0, AddrTop)>>, <<Segment(1, 0, AddrTop)>>}
JitObjects ==
    {Object("Elf", segments, text, 0, None, Some(1), NoneT) : segments \in JitSegments, text \in JitTexts}
    \cup {Object("MachO", <<Segment(0, 0, AddrTop)>>, Some([address |-> 1, offset |-> 2]), 0, None, Some(1), NoneT),
          Object("Unknown", <<>>, None, 0, None, None, NoneT)}

\* The malformed file of the comment above correct_bad_perf_jit_so_file.
BadJitObject ==
    Object("Elf", <<Segment(0, 0, AddrTop)>>, Some([address |-> 1, offset |-> 2]), 0, None, Some(1), NoneT)

\* A PE image of image base 1 whose one section starts at file offset 0.
PeObject(size_of_image, debug_id) ==
    Object("Pe", <<Segment(1, 0, size_of_image)>>, None, 1, None, debug_id, size_of_image)

\* The large image carries build id 1, the small one build id 2.
ExeObject(debug_id) == [PeObject(MaxPeSize, debug_id) EXCEPT !.build_id = Some(1)]
DllObject == [PeObject(1, Some(1)) EXCEPT !.build_id = Some(2)]

\* The PE files of the file system: none, a large image, or a large image
\* and a small one.
PeFiles ==
    {{}}
    \cup {{[path |-> ExePath, obj |-> ExeObject(debug_id)]} : debug_id \in {None, Some(1)}}
    \cup {{[path |-> ExePath, obj |-> ExeObject(debug_id)],
           [path |-> DllPath, obj |-> DllObject]} : debug_id \in {None, Some(1)}}

\* Whether the build checks integer overflow (a debug build) or wraps.
Builds == [overflow_checks : BOOLEAN]

\* A call of add_module_to_process panicked: the conversion is over.
loader_panicked(libs) == \E i \in DOMAIN libs : libs[i].kind = "panicked"

InitLoad ==
    /\ OffIdle
    /\ HelperIdle
    /\ StackIdle
    /\ RssIdle
    /\ converter = NoneT
    /\ config \in Builds
    /\ clock = 0
    /\ handled = 0
    /\ last_record = NoneT
    /\ aborted = FALSE
    /\ pe_query = None
    /\ pe_registrants = {}
    /\ suspected_pe_mappings = <<>>
    /\ lib_mappings = <<>>
    /\ \E jit \in JitObjects, pe \in PeFiles :
           /\ jit = BadJitObject \/ pe = {}
           /\ files = {[path |-> JitPath, obj |-> jit]} \cup pe

\* A mapping record with file offset 0: check_for_pe_mapping.
LoadRegisterPeMapping ==
    \E path \in {ExePath, DllPath}, start \in LoadStarts :
        /\ ~loader_panicked(lib_mappings)
        /\ suspected_pe_mappings' =
               check_for_pe_mapping(suspected_pe_mappings, path, start,
                                    get_pe_mapping_size(files, path))
        /\ UNCHANGED <<varsHelper, pe_query, pe_registrants, files, lib_mappings, varsOff, varsStack, varsRss, varsCore>>

\* The build ids a mapping record of `path` may carry: none or build id 1,
\* and for the large image, whose build id is 1, also another.
LoadBuildIds(path) ==
    IF path = ExePath THEN {None, Some(1), Some(2)}
    ELSE IF path = fixed_path_of(JitPath) THEN {None}
    ELSE {None, Some(1)}

\* An executable mapping: add_module_to_process.
AddModuleToProcess ==
    \E path \in LoadPaths, start \in LoadStarts : \E build_id \in LoadBuildIds(path) :
        /\ Len(lib_mappings) < MaxLoads
        /\ ~loader_panicked(lib_mappings)
        /\ LET r == add_module_to_process(files, suspected_pe_mappings, path,
                                          LoadOffset(path), start, LoadSize, build_id,
                                          config.overflow_checks)
           IN  /\ files' = r.files
               /\ lib_mappings' = Append(lib_mappings, r.outcome)
        /\ UNCHANGED <<varsHelper, varsPe, varsOff, varsStack, varsRss, varsCore>>

NextLoad == LoadRegisterPeMapping \/ AddModuleToProcess

SpecLoad == InitLoad /\ [][NextLoad]_vars

\* The file the loader found at JitPath (nothing ever writes to that path).
JitFile == (CHOOSE f \in files : f.path = JitPath).obj

StepIsLoad == Len(lib_mappings') = Len(lib_mappings) + 1
LastLoad == lib_mappings'[Len(lib_mappings')]

\* The candidates registered before the call that contain the mapping.
ContainingCandidates(m) ==
    {c \in PeCandidates :
        /\ m.mapping_start_avma >= c.start
        /\ m.mapping_start_avma + m.mapping_size <= c.start + c.size}

\* Of those, the one the lookup can find: no candidate starts between it
\* and the mapping.
NearestContainingCandidates(m) ==
    {c \in ContainingCandidates(m) :
        \A d \in PeCandidates : d.start <= m.mapping_start_avma => d.start <= c.start}

\* The loader registered something with the unwinder.
ModuleRegistered(m) == m.kind \in {"module", "unwinder_only"}

\* The base AVMA and the relative address at start are those of candidate c.
LoadedFromCandidate(m, c) ==
    /\ m.path = c.path
    /\ m.suspected_pe_mapping = Some(c)
    /\ ModuleRegistered(m) => m.base_avma = c.start
    /\ m.kind = "module" =>
           m.relative_address_at_start = m.mapping_start_avma - c.start

\* The mapping's own file was opened: the candidate table was not used and
\* the base AVMA comes from the bias.
LoadedFromOwnFile(m) ==
    /\ m.suspected_pe_mapping = None
    /\ m.path \in {m.requested, fixed_path_of(m.requested)}
    /\ ModuleRegistered(m) =>
           LET bias == compute_vma_bias(m.obj, m.mapping_start_file_offset,
                                        m.mapping_start_avma, m.mapping_size)
           IN  /\ bias.some
               /\ m.base_avma = (m.obj.base_svma + bias.v) % AddrTop

\* C18 (as stated): whenever the mapping's own path cannot be opened and
\* some registered candidate contains the mapping, the loader opens a
\* containing candidate's file and uses that candidate's start as the base
\* AVMA; when the own path can be opened the candidate table is not used.
PeCorrelationBaseOfAnyContaining ==
    [][StepIsLoad =>
          /\ LastLoad.own_file_opened => LoadedFromOwnFile(LastLoad)
          /\ (~LastLoad.own_file_opened /\ ContainingCandidates(LastLoad) # {}) =>
                 \E c \in ContainingCandidates(LastLoad) : LoadedFromCandidate(LastLoad, c)]_vars

\* C18 (as amended): whenever the mapping's own path cannot be opened and
\* the candidate of the greatest start at most the mapping's start contains
\* the mapping, the loader opens that candidate's file, every module it
\* registers has the candidate's start as base AVMA and every library
\* mapping it adds has the relative address mapping start minus candidate
\* start; when no such candidate exists the loader guesses the base from
\* the file offset; when the own path can be opened the candidate table is
\* not used and the base AVMA comes from the bias.
PeCorrelationBase ==
    [][StepIsLoad =>
          /\ LastLoad.own_file_opened => LoadedFromOwnFile(LastLoad)
          /\ (~LastLoad.own_file_opened /\ NearestContainingCandidates(LastLoad) # {}) =>
                 \A c \in NearestContainingCandidates(LastLoad) :
                     LoadedFromCandidate(LastLoad, c)
          /\ (~LastLoad.own_file_opened /\ NearestContainingCandidates(LastLoad) = {}) =>
                 /\ LastLoad.suspected_pe_mapping = None
                 /\ LastLoad.kind \in {"guessed", "panicked"}
                 /\ (LastLoad.kind = "guessed"
                        /\ LastLoad.mapping_start_file_offset <= LastLoad.mapping_start_avma)
                     => LastLoad.base_avma =
                            LastLoad.mapping_start_avma - LastLoad.mapping_start_file_offset]_vars

\* An anonymous mapping that starts above the start of the candidate that
\* contains it was loaded from the candidate's file.
PeCorrelationBaseWitness ==
    \E i \in DOMAIN lib_mappings :
        LET m == lib_mappings[i]
        IN  /\ ~m.own_file_opened
            /\ m.requested = AnonPath
            /\ m.suspected_pe_mapping.some
            /\ m.path = ExePath
            /\ m.kind = "module"
            /\ m.base_avma = m.suspected_pe_mapping.v.start
            /\ m.mapping_start_avma > m.base_avma
            /\ m.relative_address_at_start = m.mapping_start_avma - m.base_avma

\* The call found a file to load: the mapping's own or that of the
\* suspected PE mapping.
FileOpened(m) == m.own_file_opened \/ m.suspected_pe_mapping.some

\* The call added nothing: no module to the unwinder, no library to the
\* profile, no lib mapping to the process.
NothingRegistered(m) ==
    /\ ~m.unwinder_module
    /\ m.lib = None
    /\ m.lib_mapping = None

\* One of the three failures of an opened file: it does not parse, a build
\* id was supplied and the file has none or another, or there is no PE
\* match and no bias.
OpenedFileFails(m) ==
    \/ m.obj.format = "Unknown"
    \/ m.build_id.some /\ m.obj.build_id # m.build_id
    \/ /\ ~m.suspected_pe_mapping.some
       /\ ~compute_vma_bias(m.obj, m.mapping_start_file_offset,
                            m.mapping_start_avma, m.mapping_size).some

MaxMmapRecords == 2

get_path_if_jitdump(path) ==
    LET filename == file_name(path)
    IN  IF str_starts_with(filename, "jit-") /\ str_ends_with(filename, ".dump")
        THEN Some(path)
        ELSE None

\* DsoKey::detect: no key for the mappings that are not files.
dso_key_detect(path, cpu_mode) ==
    IF path \in {"//anon", "[stack]", "[heap]", "[vvar]"}
    THEN None
    ELSE IF str_starts_with(path, "[kernel.kallsyms]")
         THEN Some("Kernel")
         ELSE IF cpu_mode = "Kernel" THEN Some("KernelModule") ELSE Some("User")

\* self.build_ids.get(&dso_key) of a perf.data file without build ids.
build_ids_get(dso_key) == None

\* Converter::add_kernel_module without kernel symbols: the library and
\* its kernel-wide mapping.
add_kernel_module(base_address, len, dso_key, build_id, path) ==
    [kind |-> "kernel", path |-> path, name |-> dso_key, build_id |-> build_id,
     start |-> base_address, end |-> base_address + len,
     relative_address_at_start |-> 0]

\* What the mapping handlers read and write: the registry, the suspected PE
\* mappings, the file system, the libraries and mappings registered.
MmapState ==
    [c |-> converter, pes |-> suspected_pe_mappings, fs |-> files, libs |-> lib_mappings]

\* if e.page_offset == 0 { self.check_for_pe_mapping(...) }
with_pe_mapping(s, e) ==
    IF e.page_offset = 0
    THEN [s EXCEPT !.pes = check_for_pe_mapping(s.pes, e.path, e.address,
                                                get_pe_mapping_size(s.fs, e.path))]
    ELSE s

\* The call of add_module_to_process for record e: it gets the process of
\* e.pid, created when absent, and loads the module.
load_into_process(s, e, build_id) ==
    LET r == add_module_to_process(s.fs, s.pes, e.path, e.page_offset,
                                   e.address, e.length, build_id,
                                   config.overflow_checks)
    IN  [s EXCEPT !.c = get_by_pid(s.c, e.pid),
                  !.fs = r.files,
                  !.libs = Append(s.libs, r.outcome)]

\* Converter::handle_mmap.
handle_mmap_record(s, e) ==
    IF get_path_if_jitdump(e.path).some
    THEN [s EXCEPT !.c = get_by_pid(s.c, e.pid)]
    ELSE LET s1 == with_pe_mapping(s, e)
             dso_key == dso_key_detect(e.path, e.cpu_mode)
         IN  IF ~e.is_executable
             THEN s1
             ELSE IF ~dso_key.some
                  THEN s1
                  ELSE IF e.pid = KernelPid
                       THEN [s1 EXCEPT !.libs =
                                Append(@, add_kernel_module(e.address, e.length, dso_key.v,
                                                            build_ids_get(dso_key.v), e.path))]
                       ELSE load_into_process(s1, e, build_ids_get(dso_key.v))

\* Converter::handle_mmap2; e.file_id is Some(build id) or None for an
\* inode and version.
handle_mmap2_record(s, e) ==
    IF get_path_if_jitdump(e.path).some
    THEN [s EXCEPT !.c = get_by_pid(s.c, e.pid)]
    ELSE LET s1 == with_pe_mapping(s, e)
             dso_key == dso_key_detect(e.path, e.cpu_mode)
         IN  IF ~e.is_executable
             THEN s1
             ELSE IF e.file_id.some
                  THEN load_into_process(s1, e, e.file_id)
                  ELSE IF ~dso_key.some
                       THEN s1
                       ELSE load_into_process(s1, e, build_ids_get(dso_key.v))

MmapRecord(kind, pid, path, page_offset, address, is_executable, file_id, cpu_mode, timestamp) ==
    [kind |-> kind, pid |-> pid, path |-> path, page_offset |-> page_offset,
     address |-> address, length |-> LoadSize, is_executable |-> is_executable,
     file_id |-> file_id, cpu_mode |-> cpu_mode, timestamp |-> timestamp]

UpperDllPath == "LIB.DLL"
BrokenDllPath == "broken.dll"
MixedCasePath == "Game.Exe"
GonePath == "gone.exe"
KernelPath == "[kernel.kallsyms]_text"
JitDumpPath == "/tmp/jit-7.dump"
GoneSoPath == "/lib/gone.so"
GoneSoOffset == U32Top + 1

\* The file system: two PE images, a PE image whose name has none of the
\* four suffixes, and a .dll that is an ELF file.  GonePath has no file.
MmapFiles ==
    {[path |-> ExePath, obj |-> PeObject(MaxPeSize, Some(1))],
     [path |-> UpperDllPath, obj |-> PeObject(1, Some(1))],
     [path |-> MixedCasePath, obj |-> PeObject(1, Some(1))],
     [path |-> BrokenDllPath,
      obj |-> Object("Elf", <<Segment(0, 0, AddrTop)>>, None, 0, None, Some(1), NoneT)]}

\* The mapping records of kind `kind` drawn at time `timestamp`: the two PE
\* images at either offset and start, executable or not; the other .exe
\* and .dll paths; the kernel image, with pid -1; a jitdump file; an
\* anonymous mapping; a library that has no file, mapped from a file
\* offset that does not fit 32 bits, at that address and below it.
MmapRecords(kind, timestamp) ==
    {MmapRecord(kind, 1, path, page_offset, address, is_executable, None, "User", timestamp) :
        path \in {ExePath, UpperDllPath}, page_offset \in {0, 1},
        address \in LoadStarts, is_executable \in BOOLEAN}
    \cup {MmapRecord(kind, 1, path, 0, 0, FALSE, None, "User", timestamp) :
            path \in {BrokenDllPath, MixedCasePath, GonePath}}
    \cup {MmapRecord(kind, KernelPid, KernelPath, 0, 1, is_executable, file_id, "Kernel", timestamp) :
            is_executable \in BOOLEAN,
            file_id \in IF kind = "Mmap2" THEN {None, Some(1)} ELSE {None}}
    \cup {MmapRecord(kind, 1, JitDumpPath, 0, 0, TRUE, None, "User", timestamp),
          MmapRecord(kind, 1, AnonPath, 0, 1, TRUE, None, "User", timestamp)}
    \cup {MmapRecord(kind, 1, GoneSoPath, GoneSoOffset, address, TRUE, file_id, "User", timestamp) :
            address \in {1, GoneSoOffset},
            file_id \in IF kind = "Mmap2" THEN {None, Some(1)} ELSE {None}}

InitMmap ==
    /\ OffIdle
    /\ HelperIdle
    /\ StackIdle
    /\ RssIdle
    /\ PeIdle
    /\ files = MmapFiles
    /\ lib_mappings = <<>>
    /\ converter = NewConverter(FirstSampleTime, FALSE)
    /\ config \in Builds
    /\ clock = FirstSampleTime
    /\ handled = 0
    /\ last_record = NoneT
    /\ aborted = FALSE

\* One mapping record is taken from the stream; s is what its handler
\* leaves.
MmapHandled(e, s) ==
    /\ ~aborted
    /\ ~loader_panicked(lib_mappings)
    /\ handled < MaxRecords
    /\ handled < MaxMmapRecords
    /\ converter' = s.c
    /\ suspected_pe_mappings' = s.pes
    /\ files' = s.fs
    /\ lib_mappings' = s.libs
    /\ clock' = RecordTime(e)
    /\ handled' = handled + 1
    /\ last_record' = e
    /\ UNCHANGED <<varsHelper, pe_query, pe_registrants, config, aborted, varsOff, varsStack, varsRss>>

HandleMmapRecord ==
    \E e \in MmapRecords("Mmap", clock + Tick) :
        MmapHandled(e, handle_mmap_record(MmapState, e))

HandleMmap2Record ==
    \E e \in MmapRecords("Mmap2", clock + Tick) :
        MmapHandled(e, handle_mmap2_record(MmapState, e))

NextMmap == HandleMmapRecord \/ HandleMmap2Record

SpecMmap == InitMmap /\ [][NextMmap]_vars

\* The step handled a mapping record.
StepIsMmap ==
    /\ handled' = handled + 1
    /\ last_record'.kind \in {"Mmap", "Mmap2"}

\* The path of record e has one of the four suffixes and the file there
\* parses as a PE image.
IsPeImage(e) ==
    /\ \E suffix \in {".exe", ".dll", ".EXE", ".DLL"} : str_ends_with(e.path, suffix)
    /\ \E f \in files : f.path = e.path /\ f.obj.format = "Pe"

\* The start addresses that have a candidate in map.
CandidateStarts(map) == {map[i].key : i \in DOMAIN map}

\* The candidate of start address `start` in map.
CandidateAt(map, start) ==
    (CHOOSE en \in {map[i] : i \in DOMAIN map} : en.key = start).value

\* C26: a Mmap or Mmap2 record with file offset zero whose path ends in
\* .exe, .dll, .EXE or .DLL and parses as PE leaves the candidate {path,
\* start, size of image} at its start address, executable or not, in place
\* of any candidate that was there, and every other candidate as it was;
\* any other mapping record leaves the candidates unchanged; each key is
\* the start of its entry and the keys are distinct.
PeCandidateRegistration ==
    [][StepIsMmap =>
          LET e == last_record'
              before == suspected_pe_mappings
              after == suspected_pe_mappings'
          IN  /\ IF e.page_offset = 0 /\ IsPeImage(e)
                 THEN /\ CandidateStarts(after) = CandidateStarts(before) \cup {e.address}
                      /\ CandidateAt(after, e.address).path = e.path
                      /\ CandidateAt(after, e.address).size =
                             (CHOOSE f \in files : f.path = e.path).obj.size_of_image
                      /\ \A a \in CandidateStarts(before) \ {e.address} :
                             CandidateAt(after, a) = CandidateAt(before, a)
                 ELSE after = before
              /\ \A i \in DOMAIN after : after[i].key = after[i].value.start
              /\ \A i, j \in DOMAIN after : i < j => after[i].key < after[j].key]_vars

\* game.exe was mapped executable at start 0 and loaded, then a
\* non-executable mapping of LIB.DLL at the same start replaced its
\* candidate.
PeCandidateRegistrationWitness ==
    /\ handled = 2
    /\ last_record.kind = "Mmap"
    /\ last_record.path = UpperDllPath
    /\ ~last_record.is_executable
    /\ Len(lib_mappings) = 1
    /\ lib_mappings[1].path = ExePath
    /\ lib_mappings[1].mapping_start_avma = 0
    /\ lib_mappings[1].mapping_start_file_offset = 0
    /\ Len(suspected_pe_mappings) = 1
    /\ suspected_pe_mappings[1].key = 0
    /\ suspected_pe_mappings[1].value = [path |-> UpperDllPath, start |-> 0, size |-> 1]

\* The step handled an executable mapping record of the kernel's pid.
StepIsKernelMmap ==
    /\ StepIsMmap
    /\ last_record'.pid = KernelPid
    /\ last_record'.is_executable

\* C30 as stated: an executable Mmap or Mmap2 record with pid -1 registers
\* one kernel library with the kernel-wide mapping [base, base+len), does
\* not go through add_module_to_process, and leaves no process of pid -1.
KernelMappingRouting ==
    [][StepIsKernelMmap =>
          LET e == last_record'
          IN  /\ Len(lib_mappings') = Len(lib_mappings) + 1
              /\ lib_mappings'[Len(lib_mappings')].kind = "kernel"
              /\ lib_mappings'[Len(lib_mappings')].start = e.address
              /\ lib_mappings'[Len(lib_mappings')].end = e.address + e.length
              /\ converter'.processes_by_pid[KernelPid] = 0]_vars

\* C30 for Mmap records alone: the routing of handle_mmap.
KernelMappingRoutingOfMmap ==
    [][(StepIsKernelMmap /\ last_record'.kind = "Mmap") =>
          LET e == last_record'
          IN  /\ Len(lib_mappings') = Len(lib_mappings) + 1
              /\ SubSeq(lib_mappings', 1, Len(lib_mappings)) = lib_mappings
              /\ lib_mappings'[Len(lib_mappings')].kind = "kernel"
              /\ lib_mappings'[Len(lib_mappings')].start = e.address
              /\ lib_mappings'[Len(lib_mappings')].end = e.address + e.length
              /\ converter' = converter]_vars

\* An executable Mmap2 record of pid -1 went through add_module_to_process:
\* a process of pid -1 exists and the mapping is a guess of the per-process
\* loader.
KernelMmap2InProcessLoader ==
    /\ handled >= 1
    /\ last_record.kind = "Mmap2"
    /\ last_record.pid = KernelPid
    /\ converter.processes_by_pid[KernelPid] # 0
    /\ lib_mappings[Len(lib_mappings)].kind = "guessed"
    /\ lib_mappings[Len(lib_mappings)].requested = KernelPath

\* The step called add_module_to_process; LastLoad is what it did.
StepIsProcessLoad ==
    /\ StepIsMmap
    /\ StepIsLoad
    /\ LastLoad.kind # "kernel"

\* C27 as stated: a mapping whose file cannot be opened and that matches no
\* suspected PE mapping is dropped, with no library and no lib mapping, and
\* the conversion goes on.
UnopenableFileDropsMapping ==
    [][(StepIsProcessLoad /\ ~FileOpened(LastLoad)) =>
          /\ LastLoad.lib = None
          /\ LastLoad.lib_mapping = None
          /\ ~loader_panicked(lib_mappings')]_vars

\* C27: a mapping whose file cannot be opened and that matches no suspected
\* PE mapping is not dropped.  When its file offset is at most its start,
\* or the build wraps on overflow, a library of the record's path is
\* registered and one regular lib mapping over [start, start+size) is
\* added, with base start - offset and relative address offset mod 2^32
\* when the offset is at most the start; nothing is added to the unwinder
\* and the conversion goes on.  Otherwise the call panics.
UnopenableFileKeepsMapping ==
    [][(StepIsProcessLoad /\ ~FileOpened(LastLoad)) =>
          LET m == LastLoad
              e == last_record'
          IN  IF e.page_offset <= e.address \/ ~config.overflow_checks
              THEN /\ m.lib.some
                   /\ m.lib.v.path = e.path
                   /\ m.lib_mapping.some
                   /\ m.lib_mapping.v.start_avma = e.address
                   /\ m.lib_mapping.v.end_avma = e.address + e.length
                   /\ ~m.lib_mapping.v.jitted
                   /\ ~m.unwinder_module
                   /\ e.page_offset <= e.address =>
                          /\ m.base_avma = e.address - e.page_offset
                          /\ m.lib_mapping.v.relative_address_at_start =
                                 e.page_offset % U32Top
                   /\ ~loader_panicked(lib_mappings')
              ELSE /\ NothingRegistered(m)
                   /\ loader_panicked(lib_mappings')]_vars

\* A library without a file, mapped at its file offset, got its library
\* and lib mapping, and the next record was handled.
UnopenableFileKeepsMappingWitness ==
    /\ handled = 2
    /\ Len(lib_mappings) = 1
    /\ lib_mappings[1].kind = "guessed"
    /\ lib_mappings[1].requested = GoneSoPath
    /\ lib_mappings[1].mapping_start_avma = GoneSoOffset
    /\ lib_mappings[1].lib.some
    /\ lib_mappings[1].lib_mapping.some
    /\ lib_mappings[1].lib_mapping.v.relative_address_at_start = 1
    /\ lib_mappings[1].base_avma = 0
    /\ ~lib_mappings[1].unwinder_module
    /\ last_record.path = BrokenDllPath

\* C28 as stated: for every start and file offset, a mapping whose file
\* could not be opened gets a library with the debug id and code id of the
\* supplied build id (defaults without one) and a regular lib mapping over
\* [start, start+size) with base start - offset (as a u64) and relative
\* address offset mod 2^32, and no module in the unwinder.
UnopenableFileBestEffort ==
    [][(StepIsProcessLoad /\ ~FileOpened(LastLoad)) =>
          LET m == LastLoad
              e == last_record'
          IN  /\ m.lib =
                     Some(LibraryInfo(
                         e.path,
                         IF m.build_id.some
                         THEN debug_id_from_identifier(m.build_id.v)
                         ELSE DefaultDebugId,
                         IF m.build_id.some
                         THEN Some(code_id_from_binary(m.build_id.v))
                         ELSE None))
              /\ m.lib_mapping =
                     Some(LibMapping(e.address, e.address + e.length,
                                     e.page_offset % U32Top, FALSE))
              /\ m.base_avma = (e.address - e.page_offset) % AddrTop
              /\ ~m.unwinder_module]_vars

\* C28 where the subtraction cannot overflow or wraps: the statement above
\* for a file offset at most the start or a build without overflow checks.
UnopenableFileBestEffortWithoutPanic ==
    [][(StepIsProcessLoad /\ ~FileOpened(LastLoad)
           /\ (last_record'.page_offset <= last_record'.address \/ ~config.overflow_checks)) =>
          LET m == LastLoad
              e == last_record'
          IN  /\ m.lib.some
              /\ m.lib.v.debug_id =
                     (IF m.build_id.some
                      THEN debug_id_from_identifier(m.build_id.v)
                      ELSE DefaultDebugId)
              /\ m.lib_mapping =
                     Some(LibMapping(e.address, e.address + e.length,
                                     e.page_offset % U32Top, FALSE))
              /\ m.base_avma = (e.address - e.page_offset) % AddrTop
              /\ ~m.unwinder_module]_vars

\* A build with overflow checks panicked on a mapping without file whose
\* file offset is above its start.
UnopenableFilePanics ==
    /\ handled >= 1
    /\ config.overflow_checks
    /\ lib_mappings # <<>>
    /\ lib_mappings[Len(lib_mappings)].kind = "panicked"
    /\ last_record.path = GoneSoPath
    /\ last_record.page_offset > last_record.address

\* --------------------------------------- the JIT-SO detection, on its own

\* Calls of correct_bad_perf_jit_so_file in a run.
MaxRepairs == 2

\* Paths of opened files: the files of `perf inject --jit`, a fixed file,
\* names that miss the directory, the prefix or the suffix, and a library.
RepairPaths ==
    {JitPath, fixed_path_of(JitPath), "/jitted-.so", "jitted-1.so",
     "/tmp/jitted-1.so.bak", "/tmp/jit-7.so", "/lib/libc.so"}

\* Program headers: none, one at address 0 and offset 0, one elsewhere, and
\* two, of which the first or the second is at address 0 and offset 0.
RepairSegments ==
    {<<>>,
     <<Segment(0, 0, AddrTop)>>,
     <<Segment(1, 0, AddrTop)>>,
     <<Segment(0, 1, AddrTop)>>,
     <<Segment(0, 0, 1), Segment(1, 1, AddrTop)>>,
     <<Segment(1, 1, 1), Segment(0, 0, AddrTop)>>}

\* .text sections: none, off its address, at its address, without a file
\* range.
RepairTexts ==
    {None, Some([address |-> 1, offset |-> 2]), Some([address |-> 1, offset |-> 1]),
     Some([address |-> 1, offset |-> NoneT])}

RepairObjects ==
    {Object(format, segments, text, 0, None, Some(1), NoneT) :
         format \in {"Elf", "MachO"}, segments \in RepairSegments, text \in RepairTexts}
    \cup {NoObject}

InitRepair ==
    /\ OffIdle
    /\ HelperIdle
    /\ StackIdle
    /\ PeIdle
    /\ RssIdle
    /\ CoreIdle
    /\ lib_mappings = <<>>
    /\ \E path \in RepairPaths, obj \in RepairObjects :
           files = {[path |-> path, obj |-> obj]}

\* add_module_to_process, "Fix up bad files from `perf inject --jit`": one
\* of the files is opened and handed to correct_bad_perf_jit_so_file, which
\* writes the fixed file.
CorrectBadPerfJitSoFile ==
    \E f \in files :
        /\ Len(lib_mappings) < MaxRepairs
        /\ LET fixed == correct_bad_perf_jit_so_file(f.obj, f.path)
           IN  /\ files' = IF fixed.some
                           THEN fs_write(files, fixed.v.path, fixed.v.obj)
                           ELSE files
               /\ lib_mappings' =
                      Append(lib_mappings,
                             [kind |-> "repair", path |-> f.path, obj |-> f.obj,
                              fixed |-> fixed])
        /\ UNCHANGED <<varsHelper, varsPe, varsOff, varsStack, varsRss, varsCore>>

NextRepair == CorrectBadPerfJitSoFile

SpecRepair == InitRepair /\ [][NextRepair]_vars

\* The glob */jitted-*.so: a '/', the prefix, anything, the suffix.
MatchesJittedSo(path) ==
    \E i \in 1..Len(path) :
        /\ i + 7 <= Len(path) - 3
        /\ SubSeq(path, i, i + 7) = "/jitted-"
        /\ SubSeq(path, Len(path) - 2, Len(path)) = ".so"

\* The .text section has a file range that does not start at its address.
TextOffItsAddress(obj) ==
    /\ obj.text.some
    /\ obj.text.v.offset # NoneT
    /\ obj.text.v.offset # obj.text.v.address

\* The input path with ".so" replaced by "-fixed.so".
FixedName(path) == SubSeq(path, 1, Len(path) - 3) \o "-fixed.so"

\* C31: a file is rewritten if and only if its path matches */jitted-*.so,
\* it is an ELF, it has exactly one segment, that segment has address 0 and
\* a file range starting at 0, and its .text section's file range starts
\* elsewhere than its address; an ELF of two or more segments is never
\* rewritten; the output path is the input path with ".so" replaced by
\* "-fixed.so".
JitSoDetection ==
    \A i \in DOMAIN lib_mappings :
        LET r == lib_mappings[i]
        IN  /\ r.fixed.some <=>
                   /\ MatchesJittedSo(r.path)
                   /\ r.obj.format = "Elf"
                   /\ Len(r.obj.segments) = 1
                   /\ r.obj.segments[1].address = 0
                   /\ r.obj.segments[1].offset = 0
                   /\ TextOffItsAddress(r.obj)
            /\ Len(r.obj.segments) >= 2 => ~r.fixed.some
            /\ r.fixed.some => r.fixed.v.path = FixedName(r.path)

\* C31 with the segment test the code makes: the first segment, of however
\* many, has address 0 and a file range starting at 0.
JitSoDetectionByFirstSegment ==
    \A i \in DOMAIN lib_mappings :
        LET r == lib_mappings[i]
        IN  /\ r.fixed.some <=>
                   /\ MatchesJittedSo(r.path)
                   /\ r.obj.format = "Elf"
                   /\ Len(r.obj.segments) >= 1
                   /\ r.obj.segments[1].address = 0
                   /\ r.obj.segments[1].offset = 0
                   /\ TextOffItsAddress(r.obj)
            /\ r.fixed.some =>
                   /\ r.fixed.v.path = FixedName(r.path)
                   /\ r.fixed.v.obj = drop_phdr(r.obj)
                   /\ [path |-> r.fixed.v.path, obj |-> r.fixed.v.obj] \in files

\* An ELF of two segments, the first at address 0 and offset 0, was
\* rewritten, and the fixed file, opened next, was left alone.
JitSoOfTwoSegmentsRewritten ==
    /\ Len(lib_mappings) = 2
    /\ lib_mappings[1].path = JitPath
    /\ Len(lib_mappings[1].obj.segments) = 2
    /\ lib_mappings[1].fixed.some
    /\ lib_mappings[2].path = fixed_path_of(JitPath)
    /\ ~lib_mappings[2].fixed.some

\* ------------------------------------------------ the symbol helper

\* samply_symbols::LibraryInfo: every field is an Option.
SymbolsLibraryInfo(debug_name, debug_id, debug_path, name, code_id, path) ==
    [debug_name |-> debug_name, debug_id |-> debug_id, debug_path |-> debug_path,
     name |-> name, code_id |-> code_id, path |-> path]

\* Option::or: the first value, if there is one.
option_or(a, b) == IF a.some THEN a ELSE b

\* LibraryInfo::absorb: every field that is None takes the other's value.
absorb(info, other) ==
    SymbolsLibraryInfo(option_or(info.debug_name, other.debug_name),
                       option_or(info.debug_id, other.debug_id),
                       option_or(info.debug_path, other.debug_path),
                       option_or(info.name, other.name),
                       option_or(info.code_id, other.code_id),
                       option_or(info.path, other.path))

\* HashMap::insert and HashMap::get, on a set of {key, value} entries.
map_insert(map, key, value) ==
    {e \in map : e.key # key} \cup {[key |-> key, value |-> value]}

map_get(map, key) ==
    LET found == {e \in map : e.key = key}
    IN  IF found = {} THEN None ELSE Some((CHOOSE e \in found : TRUE).value)

\* Helper::with_config: the symbol cache exists iff the configuration has
\* an effective NT symbol path.
with_config(config_) ==
    [symbol_cache |-> IF config_.nt_symbol_path.some THEN Some(config_.nt_symbol_path.v) ELSE None,
     known_libs |-> [by_debug |-> {}, by_code |-> {}],
     config |-> config_]

\* Helper::add_known_lib.
add_known_lib(h, lib_info) ==
    LET by_debug == IF lib_info.debug_name.some /\ lib_info.debug_id.some
                    THEN map_insert(h.known_libs.by_debug,
                                    <<lib_info.debug_name.v, lib_info.debug_id.v>>, lib_info)
                    ELSE h.known_libs.by_debug
        by_code == IF lib_info.code_id.some
                   THEN map_insert(h.known_libs.by_code,
                                   <<lib_info.name, lib_info.code_id.v>>, lib_info)
                   ELSE h.known_libs.by_code
    IN  [h EXCEPT !.known_libs = [by_debug |-> by_debug, by_code |-> by_code]]

\* Helper::fill_in_library_info_details.
fill_in_library_info_details(h, info) ==
    LET known_by_debug == IF info.debug_name.some /\ info.debug_id.some
                          THEN map_get(h.known_libs.by_debug,
                                       <<info.debug_name.v, info.debug_id.v>>)
                          ELSE None
        info1 == IF known_by_debug.some THEN absorb(info, known_by_debug.v) ELSE info
        known_by_code == IF info1.code_id.some
                         THEN map_get(h.known_libs.by_code, <<info1.name, info1.code_id.v>>)
                         ELSE None
    IN  IF known_by_code.some THEN absorb(info1, known_by_code.v) ELSE info1

\* FileLocation and CandidatePathInfo.  An InDyldCache candidate keeps the
\* cache's path as its location.
FilePath(path) == [kind |-> "Path", v |-> path]
Custom(custom) == [kind |-> "Custom", v |-> custom]
SingleFile(location) == [kind |-> "SingleFile", location |-> location, dylib_path |-> ""]
InDyldCache(dyld_cache_path, dylib_path) ==
    [kind |-> "InDyldCache", location |-> FilePath(dyld_cache_path), dylib_path |-> dylib_path]

\* Path::join.
path_join(dir, name) == dir \o "/" \o name

\* str::trim_end_matches: the suffix is removed as often as it is there.
RECURSIVE trim_end_matches(_, _)
trim_end_matches(str, suffix) ==
    IF str_ends_with(str, suffix)
    THEN trim_end_matches(strip_suffix(str, suffix), suffix)
    ELSE str

\* "For macOS system libraries, also consult the dyld shared cache."
dyld_cache_candidates(path) ==
    IF str_starts_with(path, "/usr/") \/ str_starts_with(path, "/System/")
    THEN <<InDyldCache("/System/Volumes/Preboot/Cryptexes/OS/System/Library/dyld/dyld_shared_cache_arm64e", path),
           InDyldCache("/System/Volumes/Preboot/Cryptexes/OS/System/Library/dyld/dyld_shared_cache_x86_64", path),
           InDyldCache("/System/Library/dyld/dyld_shared_cache_arm64e", path),
           InDyldCache("/System/Library/dyld/dyld_shared_cache_x86_64h", path),
           InDyldCache("/System/Library/dyld/dyld_shared_cache_x86_64", path)>>
    ELSE <<>>

\* The .sym file of a breakpad directory.
bp_path(dir, debug_name, debug_id) ==
    path_join(path_join(path_join(dir, debug_name), debug_id),
              trim_end_matches(debug_name, ".pdb") \o ".sym")

\* Mutant: the symbol-server location of a pdb is proposed with or without
\* a symbol cache.
proposes_winsymbolserver_for_every_pdb(h, debug_name) ==
    str_ends_with(debug_name, ".pdb")

\* get_candidate_paths_for_debug_file, the test before the
\* "winsymbolserver:" location.
proposes_winsymbolserver(h, debug_name) ==
    str_ends_with(debug_name, ".pdb") /\ h.symbol_cache.some

\* Helper::get_candidate_paths_for_debug_file.  dsym_fastpath and
\* dsym_spotlight are what locate_dsym_fastpath and
\* locate_dsym_using_spotlight find on this machine (Some(path) or None).
get_candidate_paths_for_debug_file(h, library_info, dsym_fastpath, dsym_spotlight) ==
    LET info == fill_in_library_info_details(h, library_info)
        with_debug_path == info.debug_path.some /\ info.debug_name.some
        got_dsym == with_debug_path /\ info.debug_id.some /\ dsym_fastpath.some
        dsym == IF got_dsym
                THEN <<SingleFile(FilePath(dsym_fastpath.v)),
                       SingleFile(FilePath(path_join(path_join(path_join(path_join(
                           dsym_fastpath.v, "Contents"), "Resources"), "DWARF"),
                           info.debug_name.v)))>>
                ELSE <<>>
        so_dbg == IF with_debug_path /\ str_ends_with(info.debug_path.v, ".so")
                  THEN <<SingleFile(FilePath(info.debug_path.v \o ".dbg"))>>
                  ELSE <<>>
        pdb == IF with_debug_path /\ str_ends_with(info.debug_path.v, ".pdb")
               THEN <<SingleFile(FilePath(info.debug_path.v))>>
               ELSE <<>>
        spotlight == IF ~got_dsym /\ info.debug_id.some /\ dsym_spotlight.some
                     THEN <<SingleFile(FilePath(dsym_spotlight.v)),
                            SingleFile(FilePath(path_join(path_join(path_join(path_join(
                                dsym_spotlight.v, "Contents"), "Resources"), "DWARF"),
                                trim_end_matches(file_name(dsym_spotlight.v), ".dSYM"))))>>
                     ELSE <<>>
        build_id == IF info.code_id.some /\ Len(info.code_id.v) > 2
                    THEN <<SingleFile(FilePath("/usr/lib/debug/.build-id/"
                               \o SubSeq(info.code_id.v, 1, 2) \o "/"
                               \o SubSeq(info.code_id.v, 3, Len(info.code_id.v)) \o ".debug"))>>
                    ELSE <<>>
        debug_link == IF info.debug_name.some
                      THEN <<SingleFile(FilePath("/usr/bin/" \o info.debug_name.v \o ".debug")),
                             SingleFile(FilePath("/usr/bin/.debug/" \o info.debug_name.v \o ".debug")),
                             SingleFile(FilePath("/usr/lib/debug/usr/bin/" \o info.debug_name.v \o ".debug"))>>
                      ELSE <<>>
        with_debug_id == info.debug_name.some /\ info.debug_id.some
        dirs == h.config.breakpad_directories_readonly
        servers == h.config.breakpad_servers
        bp_dirs == IF with_debug_id
                   THEN [i \in DOMAIN dirs |->
                            SingleFile(FilePath(bp_path(dirs[i], info.debug_name.v, info.debug_id.v)))]
                   ELSE <<>>
        bp_server_dirs == IF with_debug_id
                          THEN [i \in DOMAIN servers |->
                                   SingleFile(FilePath(bp_path(servers[i].dir, info.debug_name.v,
                                                               info.debug_id.v)))]
                          ELSE <<>>
        win == IF with_debug_id /\ proposes_winsymbolserver(h, info.debug_name.v)
               THEN <<SingleFile(Custom("winsymbolserver:" \o info.debug_name.v \o "/"
                                        \o info.debug_id.v \o "/" \o info.debug_name.v))>>
               ELSE <<>>
        bp == IF with_debug_id /\ servers # <<>>
              THEN <<SingleFile(Custom("bpsymbolserver:" \o info.debug_name.v \o "/"
                                       \o info.debug_id.v \o "/"
                                       \o trim_end_matches(info.debug_name.v, ".pdb") \o ".sym"))>>
              ELSE <<>>
        own == IF info.path.some
               THEN <<SingleFile(FilePath(info.path.v))>> \o dyld_cache_candidates(info.path.v)
               ELSE <<>>
    IN  dsym \o so_dbg \o pdb \o spotlight \o build_id \o debug_link
            \o bp_dirs \o bp_server_dirs \o win \o bp \o own

\* Mutant: the symbol-server location comes before the binary itself.
get_candidate_paths_for_binary_server_first(h, library_info) ==
    LET info == fill_in_library_info_details(h, library_info)
        own == IF info.path.some THEN <<SingleFile(FilePath(info.path.v))>> ELSE <<>>
        win == IF h.symbol_cache.some /\ info.name.some /\ info.code_id.some
               THEN <<SingleFile(Custom("winsymbolserver:" \o info.name.v \o "/"
                                        \o info.code_id.v \o "/" \o info.name.v))>>
               ELSE <<>>
        dyld == IF info.path.some THEN dyld_cache_candidates(info.path.v) ELSE <<>>
    IN  win \o own \o dyld

\* Helper::get_candidate_paths_for_binary.
get_candidate_paths_for_binary(h, library_info) ==
    LET info == fill_in_library_info_details(h, library_info)
        own == IF info.path.some THEN <<SingleFile(FilePath(info.path.v))>> ELSE <<>>
        win == IF h.symbol_cache.some /\ info.name.some /\ info.code_id.some
               THEN <<SingleFile(Custom("winsymbolserver:" \o info.name.v \o "/"
                                        \o info.code_id.v \o "/" \o info.name.v))>>
               ELSE <<>>
        dyld == IF info.path.some THEN dyld_cache_candidates(info.path.v) ELSE <<>>
    IN  own \o win \o dyld

\* Helper::open_file_impl, as far as the choice of the source goes: the
\* file system, the symbol cache (unwrap), the breakpad servers, or a panic.
open_file_impl(h, location) ==
    IF location.kind = "Path"
    THEN "file"
    ELSE IF str_starts_with(location.v, "winsymbolserver:")
         THEN IF h.symbol_cache.some THEN "symbol_cache" ELSE "panicked"
         ELSE IF str_starts_with(location.v, "bpsymbolserver:")
              THEN "breakpad_servers"
              ELSE "panicked"

\* ---------------------------------------- the symbol helper, on its own

\* Libraries made known through add_known_lib in a run.
MaxKnownLibs == 1

\* SymbolManagerConfig: with or without an NT symbol path, a read-only
\* breakpad directory and a breakpad server.
HelperConfigs ==
    [nt_symbol_path : {None, Some("srv**https://msdl.microsoft.com/download/symbols")},
     breakpad_directories_readonly : {<<>>, <<"/bp">>},
     breakpad_servers : {<<>>, <<[url |-> "https://symbols.example", dir |-> "/bpcache"]>>},
     verbose : {FALSE}]

\* The library infos asked about.  Code ids of two characters are too short
\* for a build-id debug file; "/opt/a.pdb" is a debug path and a binary path.
LibraryInfos ==
    {SymbolsLibraryInfo(debug_name, debug_id, debug_path, name, code_id, path) :
         debug_name \in {None, Some("a.pdb"), Some("liba.so")},
         debug_id \in {None, Some("ID1")},
         debug_path \in {None, Some("/usr/lib/liba.so"), Some("/opt/a.pdb")},
         name \in {None, Some("a.dll")},
         code_id \in {None, Some("ab"), Some("abcd")},
         path \in {None, Some("/opt/a.pdb"), Some("/usr/lib/liba.so")}}

\* The library infos made known: one found by its debug name and id, one
\* found by its code id alone; both bring a path.
KnownLibInfos ==
    {SymbolsLibraryInfo(Some("a.pdb"), Some("ID1"), Some("/opt/a.pdb"), Some("a.dll"),
                        Some("abcd"), Some("/opt/a.dll")),
     SymbolsLibraryInfo(None, None, None, None, Some("abcd"), Some("/usr/lib/libb.so"))}

\* What the dSYM lookups find.
DsymResults == {None, Some("/opt/liba.dSYM")}

InitHelper ==
    /\ OffIdle
    /\ StackIdle
    /\ PeIdle
    /\ RssIdle
    /\ LoadIdle
    /\ CoreIdle
    /\ \E config_ \in HelperConfigs : helper = with_config(config_)
    /\ candidate_paths = None
    /\ opened = None

KnownLibs(h) ==
    {e.value : e \in h.known_libs.by_debug} \cup {e.value : e \in h.known_libs.by_code}

AddKnownLib ==
    \E lib_info \in KnownLibInfos :
        /\ ~candidate_paths.some
        /\ Cardinality(KnownLibs(helper)) < MaxKnownLibs
        /\ helper' = add_known_lib(helper, lib_info)
        /\ UNCHANGED <<candidate_paths, opened,
                       varsOff, varsStack, varsPe, varsRss, varsCore, varsLoad>>

\* A candidate list depends on the helper and the library info alone, so
\* one list is asked for in a run.
GetCandidatePathsForDebugFile ==
    \E library_info \in LibraryInfos, dsym_fastpath \in DsymResults, dsym_spotlight \in DsymResults :
        /\ ~candidate_paths.some
        /\ ~opened.some
        /\ candidate_paths' =
               Some([for |-> "debug_file", library_info |-> library_info,
                     info |-> fill_in_library_info_details(helper, library_info),
                     paths |-> get_candidate_paths_for_debug_file(helper, library_info,
                                                                  dsym_fastpath, dsym_spotlight)])
        /\ UNCHANGED <<helper, opened, varsOff, varsStack, varsPe, varsRss, varsCore, varsLoad>>

GetCandidatePathsForBinary ==
    \E library_info \in LibraryInfos :
        /\ ~candidate_paths.some
        /\ ~opened.some
        /\ candidate_paths' =
               Some([for |-> "binary", library_info |-> library_info,
                     info |-> fill_in_library_info_details(helper, library_info),
                     paths |-> get_candidate_paths_for_binary(helper, library_info)])
        /\ UNCHANGED <<helper, opened, varsOff, varsStack, varsPe, varsRss, varsCore, varsLoad>>

\* Helper::open_file on one of the locations just proposed; the list is
\* used up.
OpenFile ==
    /\ candidate_paths.some
    /\ ~opened.some
    /\ \E i \in DOMAIN candidate_paths.v.paths :
           LET location == candidate_paths.v.paths[i].location
           IN  opened' = Some([location |-> location,
                               outcome |-> open_file_impl(helper, location)])
    /\ candidate_paths' = None
    /\ UNCHANGED <<helper, varsOff, varsStack, varsPe, varsRss, varsCore, varsLoad>>

NextHelper ==
    \/ AddKnownLib
    \/ GetCandidatePathsForDebugFile
    \/ GetCandidatePathsForBinary
    \/ OpenFile

SpecHelper == InitHelper /\ [][NextHelper]_vars

\* The paths that only a search for debug information proposes: a dSYM
\* bundle and the DWARF file inside it, a .so.dbg file, a pdb file, a file
\* of a .build-id or .debug directory, and a breakpad .sym file.
IsDebugFilePath(path) ==
    \/ str_ends_with(path, ".dSYM")
    \/ str_contains(path, "/Contents/Resources/DWARF/")
    \/ str_ends_with(path, ".so.dbg")
    \/ str_ends_with(path, ".pdb")
    \/ str_ends_with(path, ".debug")
    \/ str_ends_with(path, ".sym")

\* A candidate that only a search for debug information proposes.
IsDebugFileCandidate(c) ==
    /\ c.kind = "SingleFile"
    /\ c.location.kind = "Custom" \/ IsDebugFilePath(c.location.v)

\* C32: the candidate list for a binary begins with the binary's own path
\* whenever the library info, after it absorbed the known libraries'
\* details, has a path; the candidate list for a debug file has the
\* binary's own path after every candidate that is specific to debug files,
\* followed by dyld-cache entries alone.
CandidatePathOrdering ==
    candidate_paths.some =>
        LET q == candidate_paths.v
            paths == q.paths
            own == SingleFile(FilePath(q.info.path.v))
        IN  /\ (q.for = "binary" /\ q.info.path.some) =>
                   /\ paths # <<>>
                   /\ paths[1] = own
            /\ (q.for = "debug_file" /\ q.info.path.some) =>
                   \E i \in DOMAIN paths :
                       /\ paths[i] = own
                       /\ \A j \in 1..(i - 1) : IsDebugFileCandidate(paths[j])
                       /\ \A j \in (i + 1)..Len(paths) :
                              /\ paths[j].kind = "InDyldCache"
                              /\ paths[j].dylib_path = q.info.path.v
            /\ (q.for = "debug_file" /\ ~q.info.path.some) =>
                   \A j \in DOMAIN paths : IsDebugFileCandidate(paths[j])

\* A debug-file list whose path came from a known library: a pdb, a
\* symbol-server location, then the binary, then the dyld cache.
CandidatePathOrderingWitness ==
    /\ candidate_paths.some
    /\ candidate_paths.v.for = "debug_file"
    /\ ~candidate_paths.v.library_info.path.some
    /\ candidate_paths.v.info.path = Some("/usr/lib/libb.so")
    /\ LET paths == candidate_paths.v.paths
       IN  /\ Len(paths) >= 9
           /\ paths[1].location.v = "/opt/a.pdb"
           /\ paths[Len(paths) - 6].location.kind = "Custom"
           /\ paths[Len(paths) - 5] = SingleFile(FilePath("/usr/lib/libb.so"))
           /\ paths[Len(paths)].kind = "InDyldCache"

\* A binary list of a path, a symbol-server location and the dyld cache.
CandidatePathOrderingBinaryFirst ==
    /\ candidate_paths.some
    /\ candidate_paths.v.for = "binary"
    /\ candidate_paths.v.info.path = Some("/usr/lib/liba.so")
    /\ LET paths == candidate_paths.v.paths
       IN  /\ Len(paths) = 7
           /\ paths[1] = SingleFile(FilePath("/usr/lib/liba.so"))
           /\ paths[2].location.kind = "Custom"
           /\ paths[7].kind = "InDyldCache"

\* C39: every custom location of a candidate list starts with
\* "winsymbolserver:" or "bpsymbolserver:"; the first is proposed only by a
\* helper with a symbol cache, the second only by one with a breakpad
\* server; open_file on a proposed location does not panic.
ProposedLocationsOpen ==
    /\ candidate_paths.some =>
           \A i \in DOMAIN candidate_paths.v.paths :
               LET location == candidate_paths.v.paths[i].location
               IN  location.kind = "Custom" =>
                       /\ \/ str_starts_with(location.v, "winsymbolserver:")
                          \/ str_starts_with(location.v, "bpsymbolserver:")
                       /\ str_starts_with(location.v, "winsymbolserver:") =>
                              /\ helper.symbol_cache.some
                              /\ helper.config.nt_symbol_path.some
                       /\ str_starts_with(location.v, "bpsymbolserver:") =>
                              helper.config.breakpad_servers # <<>>
    /\ opened.some => opened.v.outcome # "panicked"

\* A symbol-server location of a pdb was opened through the symbol cache.
ProposedLocationsOpenWitness ==
    /\ opened.some
    /\ opened.v.location = Custom("winsymbolserver:a.pdb/ID1/a.pdb")
    /\ opened.v.outcome = "symbol_cache"

\* ------------------------------------------- COMM records, on their own

\* Most records of a run of COMM records.
MaxCommRecords == 3

\* Plain renames and execves of the main thread and of another thread of
\* one process, with a timestamp later than the last record's, with the
\* timestamp zero and without one, between Samples and Exits of the thread,
\* with and without thread merging.
InitComm ==
    InitCore({cfg \in Configs :
                 cfg.have_context_switches /\ cfg.sampling_is_time_based = NoneT}, {FALSE})

NextComm ==
    /\ handled < MaxCommRecords
    /\ \/ \E tid \in {1, 2} : HandleSample(SampleRecord("Sample", 1, tid, clock + Tick))
       \/ HandleThreadEnd(ForkOrExitRecord("Exit", 1, 1, 2, 2, clock))
       \/ \E tid \in {1, 2}, is_execve \in BOOLEAN :
              HandleThreadNameUpdate(CommOrExecRecord(1, tid, "a", is_execve, NoneT))
       \/ \E tid \in {1, 2}, is_execve \in BOOLEAN :
              HandleThreadNameUpdate(CommOrExecRecord(1, tid, "a", is_execve, 0))
       \/ \E tid \in {1, 2}, is_execve \in BOOLEAN :
              HandleThreadNameUpdate(CommOrExecRecord(1, tid, "a", is_execve, clock + Tick))

SpecComm == InitComm /\ [][NextComm]_vars

StepIsExecve ==
    /\ handled' = handled + 1
    /\ last_record'.kind = "Comm"
    /\ last_record'.is_execve

\* The step's execve retired the thread old and created the thread new
\* (and likewise the processes): the start of the new one is not before the
\* end of the old one.
LifetimesDisjoint ==
    LET e == last_record'
        old == LiveThread(converter, e.pid, e.tid)
        new == LiveThread(converter', e.pid, e.tid)
        old_process == ProcessHandle(converter, e.pid)
        new_process == ProcessHandle(converter', e.pid)
    IN  /\ (old # 0 /\ new > Len(converter.threads)) =>
               /\ converter'.threads[old].end_time # NoneT
               /\ converter'.threads[new].start_time >= converter'.threads[old].end_time
        /\ (e.pid = e.tid /\ old_process # 0 /\ new_process > Len(converter.processes)) =>
               /\ converter'.processes[old_process].end_time # NoneT
               /\ converter'.processes[new_process].start_time >=
                      converter'.processes[old_process].end_time

\* C35: after an execve that is not satisfied by reuse, the start time of
\* the re-created process or thread is not earlier than the end time of the
\* old one, whether the record's timestamp is present and non-zero, zero or
\* absent, and whatever the last seen Sample time.
ExecveLifetimesDisjoint ==
    [][StepIsExecve => LifetimesDisjoint]_vars

\* C35 for a record whose timestamp is absent, zero or not later than the
\* last seen Sample time: the old entity ends and the new one starts at the
\* last seen Sample time.
ExecveLifetimesDisjointAtSampleTime ==
    [][(StepIsExecve /\ \/ last_record'.timestamp = NoneT
                        \/ last_record'.timestamp <= converter.current_sample_time) =>
          LifetimesDisjoint]_vars

\* An execve with a timestamp later than the last Sample re-created the
\* process: the new process and its main thread start at the Sample's time,
\* before the old ones end.
ExecveLifetimesOverlap ==
    /\ handled >= 2
    /\ last_record.kind = "Comm"
    /\ last_record.is_execve
    /\ last_record.pid = last_record.tid
    /\ last_record.timestamp > converter.current_sample_time
    /\ LET new == ProcessHandle(converter, last_record.pid)
       IN  /\ new > 1
           /\ converter.processes[new].start_time =
                  converter.current_sample_time - FirstSampleTime
           /\ converter.processes[1].pid = last_record.pid
           /\ converter.processes[1].end_time = last_record.timestamp - FirstSampleTime
           /\ converter.processes[new].start_time < converter.processes[1].end_time
           /\ converter.threads[converter.processes[new].main_thread].start_time <
                  converter.threads[converter.processes[1].main_thread].end_time

StepIsPlainRename ==
    /\ handled' = handled + 1
    /\ last_record'.kind = "Comm"
    /\ ~last_record'.is_execve

\* C36: a COMM record without the execve flag retires an entity (or takes
\* one back from those kept for reuse) only when thread merging is enabled
\* and the thread is not the main thread.  In every other case the
\* thread of the record, made on the spot when absent, gets the name, the
\* process gets it iff tid = pid, and nothing else changes: no thread and no
\* process ends, none is taken from those kept for reuse, and no start time
\* is set.
PlainRenameChangesNames ==
    [][StepIsPlainRename =>
          LET e == last_record'
              old == LiveThread(converter, e.pid, e.tid)
              new == LiveThread(converter', e.pid, e.tid)
              old_process == ProcessHandle(converter, e.pid)
              process == ProcessHandle(converter', e.pid)
              ended == {k \in 1..Len(converter.threads) :
                            converter'.threads[k].end_time # converter.threads[k].end_time}
          IN  /\ new # 0
              /\ converter'.threads[new].name = e.name
              /\ converter'.processes[process].name =
                     (IF e.pid = e.tid THEN e.name
                      ELSE IF old_process = 0 THEN NoName
                      ELSE converter.processes[old_process].name)
              /\ ended # {} => (config.merge_threads /\ e.pid # e.tid)
              /\ ~(config.merge_threads /\ e.pid # e.tid) =>
                     /\ old # 0 => new = old
                     /\ old = 0 =>
                            /\ new > Len(converter.threads)
                            /\ converter'.threads[new].start_time = NewThread(e.tid).start_time
                     /\ old_process # 0 => process = old_process
                     /\ converter'.ended_processes = converter.ended_processes
                     /\ \A k \in 1..Len(converter.threads) :
                            /\ converter'.threads[k].start_time = converter.threads[k].start_time
                            /\ converter'.threads[k].end_time = converter.threads[k].end_time
                            /\ converter'.threads[k].tid = converter.threads[k].tid
                            /\ k # new => converter'.threads[k] = converter.threads[k]
                     /\ \A k \in 1..Len(converter.processes) :
                            /\ converter'.processes[k].start_time =
                                   converter.processes[k].start_time
                            /\ converter'.processes[k].end_time = converter.processes[k].end_time
                            /\ converter'.processes[k].ended_threads =
                                   converter.processes[k].ended_threads
                            /\ converter'.processes[k].unresolved_samples =
                                   converter.processes[k].unresolved_samples]_vars

\* With thread merging enabled, the main thread was renamed after a Sample
\* at a later time: thread and process carry the name, are live, and still
\* have the start time of their creation.
PlainRenameChangesNamesWitness ==
    /\ handled >= 2
    /\ config.merge_threads
    /\ last_record.kind = "Comm"
    /\ ~last_record.is_execve
    /\ last_record.pid = last_record.tid
    /\ converter.current_sample_time > FirstSampleTime
    /\ Len(converter.processes) = 1
    /\ converter.processes[1].name = "a"
    /\ converter.processes[1].end_time = NoneT
    /\ converter.processes[1].start_time = 0
    /\ converter.threads[converter.processes[1].main_thread].name = "a"
    /\ converter.threads[converter.processes[1].main_thread].start_time = 0
    /\ converter.threads[converter.processes[1].main_thread].end_time = NoneT

\* ------------------------------------ the unwinder and the profile

\* Outcome m has a library in the profile and a lib mapping of the process
\* for the AVMA range of the mapping.
InProfile(m) ==
    /\ m.lib.some
    /\ m.lib_mapping.some
    /\ m.lib_mapping.v.start_avma = m.mapping_start_avma
    /\ m.lib_mapping.v.end_avma = m.mapping_start_avma + m.mapping_size

\* C38 as stated: every module the loader added to the unwinder of a
\* process also has a library in the profile and a lib mapping, regular or
\* JIT, of the process for the same AVMA range.
UnwinderAndProfileInStep ==
    \A i \in DOMAIN lib_mappings :
        lib_mappings[i].unwinder_module => InProfile(lib_mappings[i])

\* What the loader does: a module of a file that has a debug id is in the
\* profile as well; one of a file without a debug id is in neither the
\* library catalog nor the lib mappings.
UnwinderAndProfileInStepWithDebugId ==
    \A i \in DOMAIN lib_mappings :
        lib_mappings[i].unwinder_module =>
            IF lib_mappings[i].obj.debug_id.some
            THEN InProfile(lib_mappings[i])
            ELSE ~lib_mappings[i].lib.some /\ ~lib_mappings[i].lib_mapping.some

\* game.exe, which has no debug id, was loaded: the unwinder has its
\* module, the profile has neither library nor lib mapping.
UnwinderModuleWithoutLibrary ==
    /\ Len(lib_mappings) = 1
    /\ lib_mappings[1].requested = ExePath
    /\ lib_mappings[1].own_file_opened
    /\ lib_mappings[1].kind = "unwinder_only"
    /\ lib_mappings[1].unwinder_module
    /\ lib_mappings[1].obj.debug_id = None
    /\ lib_mappings[1].lib = None
    /\ lib_mappings[1].lib_mapping = None

\* ------------------------------ mapping records of two processes

\* Records handled per run.
MaxScopeRecords == 3

ScopePids == {1, 2}

\* The mapping records of process pid at time `timestamp`: the header of
\* the PE image, mapped from file offset 0 and not executable, and an
\* executable mapping of a file that cannot be opened.
ScopeMmapRecords(pid, timestamp) ==
    {MmapRecord("Mmap", pid, ExePath, 0, address, FALSE, None, "User", timestamp) :
        address \in LoadStarts}
    \cup {MmapRecord("Mmap", pid, GoneSoPath, 1, address, TRUE, None, "User", timestamp) :
            address \in LoadStarts}

InitScope ==
    /\ OffIdle
    /\ HelperIdle
    /\ StackIdle
    /\ RssIdle
    /\ PeIdle
    /\ files = MmapFiles
    /\ lib_mappings = <<>>
    /\ converter = NewConverter(FirstSampleTime, FALSE)
    /\ config \in [overflow_checks : BOOLEAN, merge_threads : BOOLEAN]
    /\ clock = FirstSampleTime
    /\ handled = 0
    /\ last_record = NoneT
    /\ aborted = FALSE

\* Record e puts a candidate into suspected_pe_mappings.
RegistersPeCandidate(fs, e) ==
    /\ e.page_offset = 0
    /\ filename_is_pe(e.path)
    /\ get_pe_mapping_size(fs, e.path) # NoneT

\* History: the record of process e.pid registered the candidate of start
\* e.address, in place of the one that was there.
registrants_after_mmap(registrants, fs, e) ==
    IF RegistersPeCandidate(fs, e)
    THEN {r \in registrants : r.start # e.address}
         \cup {[start |-> e.address, pid |-> e.pid, exited |-> FALSE]}
    ELSE registrants

\* History: the process of e.pid has exited.
registrants_after_exit(registrants, e) ==
    {[r EXCEPT !.exited = @ \/ (r.pid = e.pid /\ e.pid = e.tid)] : r \in registrants}

\* A mapping record of one of the processes.
ScopeMmap ==
    \E pid \in ScopePids : \E e \in ScopeMmapRecords(pid, clock + Tick) :
        LET s == handle_mmap_record(MmapState, e)
        IN  /\ ~loader_panicked(lib_mappings)
            /\ handled < MaxScopeRecords
            /\ converter' = s.c
            /\ suspected_pe_mappings' = s.pes
            /\ pe_registrants' = registrants_after_mmap(pe_registrants, files, e)
            /\ files' = s.fs
            /\ lib_mappings' = s.libs
            /\ clock' = RecordTime(e)
            /\ handled' = handled + 1
            /\ last_record' = e
            /\ UNCHANGED <<varsHelper, pe_query, config, aborted, varsOff, varsStack, varsRss>>

\* The main thread of one of the processes exits.
ScopeExit ==
    \E pid \in ScopePids :
        LET e == ForkOrExitRecord("Exit", pid, pid, pid, pid, clock)
        IN  /\ ~loader_panicked(lib_mappings)
            /\ handled < MaxScopeRecords
            /\ converter' = handle_thread_end(converter, e, config)
            /\ pe_registrants' = registrants_after_exit(pe_registrants, e)
            /\ clock' = RecordTime(e)
            /\ handled' = handled + 1
            /\ last_record' = e
            /\ UNCHANGED <<varsHelper, suspected_pe_mappings, pe_query, config, aborted,
                           varsLoad, varsOff, varsStack, varsRss>>

NextScope == ScopeMmap \/ ScopeExit

SpecScope == InitScope /\ [][NextScope]_vars

\* The step loaded the mapping of a record with the help of a PE candidate.
StepUsesPeCandidate ==
    /\ handled' = handled + 1
    /\ last_record'.kind = "Mmap"
    /\ StepIsLoad
    /\ LastLoad.kind # "panicked"
    /\ LastLoad.suspected_pe_mapping.some

\* The registrant of the candidate the step used.
UsedRegistrant ==
    CHOOSE r \in pe_registrants' : r.start = LastLoad.suspected_pe_mapping.v.start

\* C37 as stated: the candidate that resolves an unopenable mapping of a
\* process was registered by a mapping record of that same process, and
\* that process has not exited since.
PeCandidatesProcessScoped ==
    [][StepUsesPeCandidate =>
          /\ UsedRegistrant.pid = last_record'.pid
          /\ ~UsedRegistrant.exited]_vars

\* What the loader does: the candidate comes from the one map of the
\* converter by the addresses of the mapping alone, and an exit leaves the
\* map as it was.
PeCandidatesSharedByAddress ==
    [][/\ (handled' = handled + 1 /\ last_record'.kind = "Mmap" /\ StepIsLoad
              /\ LastLoad.kind # "panicked") =>
           LastLoad.suspected_pe_mapping =
               find_suspected_pe_mapping(suspected_pe_mappings', last_record'.address,
                                         last_record'.length)
       /\ (handled' = handled + 1 /\ last_record'.kind = "Exit") =>
           suspected_pe_mappings' = suspected_pe_mappings]_vars

\* Process 1 mapped the header of game.exe at 0; the unopenable mapping of
\* process 2 at the same address was then loaded from game.exe.
PeCandidateOfOtherProcessUsed ==
    /\ handled = 2
    /\ last_record.kind = "Mmap"
    /\ last_record.pid = 2
    /\ last_record.path = GoneSoPath
    /\ pe_registrants = {[start |-> 0, pid |-> 1, exited |-> FALSE]}
    /\ Len(lib_mappings) = 1
    /\ lib_mappings[1].kind = "module"
    /\ lib_mappings[1].path = ExePath
    /\ lib_mappings[1].suspected_pe_mapping = Some([path |-> ExePath, start |-> 0, size |-> MaxPeSize])

\* Process 1 mapped the header of game.exe at 0 and exited; the unopenable
\* mapping of process 2 was then loaded from game.exe.
PeCandidateOfExitedProcessUsed ==
    /\ handled = 3
    /\ last_record.kind = "Mmap"
    /\ last_record.pid = 2
    /\ last_record.path = GoneSoPath
    /\ pe_registrants = {[start |-> 0, pid |-> 1, exited |-> TRUE]}
    /\ converter.processes_by_pid[1] = 0
    /\ Len(lib_mappings) = 1
    /\ lib_mappings[1].kind = "module"
    /\ lib_mappings[1].path = ExePath

====
